---- MODULE Spec2Model ----
(***************************************************************************)
(* Ingress layer of the openclaw gateway: the HTTP request router          *)
(* (handleRequest), the WebSocket upgrade gate                             *)
(* (attachGatewayUpgradeHandler), the canvas Auth Resolver                 *)
(* (authorizeCanvasRequest) and the Capability Registry                    *)
(* (hasAuthorizedNodeWsClientForCanvasCapability) of                       *)
(* src/src/gateway/server-http.ts, together with the shared session set,   *)
(* the clock, the live configuration and the auth rate limiter they read;  *)
(* and the path functions of the control UI's navigation                   *)
(* (src/unnamed/part_002) and the webhook body reader of the QQ extension  *)
(* (readJsonBodyWithRaw of src/extensions/qq/src/monitor.ts).              *)
(*                                                                         *)
(* A JavaScript handler runs to completion between two awaits, so every    *)
(* action below is one synchronous segment of a handler: from the event    *)
(* (or the resumption of an await) to the next await or to the return.     *)
(***************************************************************************)
EXTENDS Integers, Sequences, FiniteSets, TLC

VARIABLES
    clients,        \* the live session set (a JS Set: insertion ordered)
    now,            \* Date.now()
    trustedProxies, \* gateway.trustedProxies of the live config snapshot
    limiter,        \* the auth rate limiter's per-caller failure record
    opts,           \* the options the server was created with
    liveAuth,       \* gateway.auth of the live config snapshot
    req,            \* per in-flight request/upgrade: inputs, position, effects
    nav,            \* the control UI's location: tab, base path, pathname
    reader          \* one call of readJsonBodyWithRaw: its closure and its promise

vars == <<clients, now, trustedProxies, limiter, opts, liveAuth, req, nav, reader>>

----------------------------------------------------------------------------
(* Bounds of the model *)

MaxClients == 2
MaxTicks == 3
MaxBaseLen == 4
MaxChunks == 3
MaxBodyBytes == 3

(* The requests and upgrades that can be in flight together. *)
Slots == {1, 2}

(* The instants the clock visits (ms): the grant, inside the TTL, exactly   *)
(* at the first expiry, just past it, at a renewed expiry, past that.      *)
Instants == <<0, 4000, 5000, 6001, 9000, 11001>>

TimePoints == {Instants[k] : k \in 1..(MaxTicks + 1)}

----------------------------------------------------------------------------
(* Program constants *)

CANVAS_CAPABILITY_TTL_MS == 5000

A2UI_PATH == <<"__openclaw__", "a2ui">>
CANVAS_HOST_PATH == <<"__openclaw__", "canvas">>
CANVAS_WS_PATH == <<"__openclaw__", "ws">>
CANVAS_CAPABILITY_PATH_PREFIX == <<"__openclaw__", "cap">>

(* The limiter of the spec's scenario: block after 3 failures in a window. *)
RateLimitMaxAttempts == 3
RateLimitWindowMs == 5000

(* resolvedAuth: the auth settings resolved from the configuration when    *)
(* the server is created, and handed to it in its options.                 *)
resolvedAuth == [mode |-> "token", token |-> "test-token", password |-> ""]

gatewayHealthPayload == [ok |-> TRUE, status |-> "ok", service |-> "openclaw-gateway"]

----------------------------------------------------------------------------
(* Paths are sequences of segments: "/a/b" is <<"a", "b">>. *)

(* pathname.startsWith(`${prefix}/`) *)
StartsWithSlash(p, prefix) ==
    /\ Len(p) > Len(prefix)
    /\ SubSeq(p, 1, Len(prefix)) = prefix

isGatewayHealthPath(pathname) ==
    pathname = <<"healthz">> \/ pathname = <<"health">>

isCanvasPath(pathname) ==
    \/ pathname = A2UI_PATH
    \/ StartsWithSlash(pathname, A2UI_PATH)
    \/ pathname = CANVAS_HOST_PATH
    \/ StartsWithSlash(pathname, CANVAS_HOST_PATH)
    \/ pathname = CANVAS_WS_PATH

isChannelPath(pathname) == StartsWithSlash(pathname, <<"api", "channels">>)

----------------------------------------------------------------------------
(* URL Scoping Normalizer (canvas-capability.ts). *)

NoUrl == <<"<none>">>

(* decodeURIComponent on one path segment; "<URIError>" stands for the throw. *)
decodeURIComponent(seg) ==
    CASE seg = "T%31" -> "T1"
      [] seg = "%E0%A4%A" -> "<URIError>"
      [] OTHER -> seg

normalizeCanvasScopedUrl(rawUrl) ==
    IF StartsWithSlash(rawUrl, CANVAS_CAPABILITY_PATH_PREFIX)
    THEN LET remainder == SubSeq(rawUrl, Len(CANVAS_CAPABILITY_PATH_PREFIX) + 1, Len(rawUrl))
             decoded == decodeURIComponent(remainder[1])
         IN  IF Len(remainder) < 2 \/ remainder[1] = ""
                  \/ decoded = "<URIError>" \/ decoded = ""
             THEN [malformedScopedPath |-> TRUE, rewrittenUrl |-> NoUrl, capability |-> ""]
             ELSE [malformedScopedPath |-> FALSE,
                   rewrittenUrl |-> Tail(remainder),
                   capability |-> decoded]
    ELSE [malformedScopedPath |-> FALSE, rewrittenUrl |-> NoUrl, capability |-> ""]

----------------------------------------------------------------------------
(* Sessions and the Capability Registry. The empty string stands for an    *)
(* absent (undefined) or empty token, 0 for an absent expiry: both falsy.  *)

Tokens == {"T1", "T2"}

SessionKinds ==
    { [role |-> "node", mode |-> "node"],
      [role |-> "operator", mode |-> "node"],
      [role |-> "operator", mode |-> "webchat"] }

normalizeGatewayClientMode(mode) ==
    CASE mode = "node" -> "node"
      [] mode = "webchat" -> "webchat"
      [] OTHER -> ""

(* Faulty variant: the session's class is not looked at. *)
isNodeWsClientAny(client) == TRUE

isNodeWsClient(client) ==
    IF client.role = "node"
    THEN TRUE
    ELSE normalizeGatewayClientMode(client.mode) = "node"

(* Constant-time equality of two secrets; an absent secret never matches. *)
safeEqualSecret(a, b) == a # "" /\ b # "" /\ a = b

(* Faulty variant: a token is still accepted at the instant of its expiry. *)
MatchesCapabilityThroughExpiry(client, capability, nowMs) ==
    /\ isNodeWsClient(client)
    /\ client.canvasCapability # ""
    /\ client.canvasCapabilityExpiresAtMs # 0
    /\ ~(client.canvasCapabilityExpiresAtMs < nowMs)
    /\ safeEqualSecret(client.canvasCapability, capability)

(* One session passes the guards of the loop body and matches. *)
MatchesCapability(client, capability, nowMs) ==
    /\ isNodeWsClient(client)
    /\ client.canvasCapability # ""
    /\ client.canvasCapabilityExpiresAtMs # 0
    /\ ~(client.canvasCapabilityExpiresAtMs <= nowMs)
    /\ safeEqualSecret(client.canvasCapability, capability)

(* Faulty variant: the renewed expiry is the TTL itself, not counted from  *)
(* the time of the match.                                                  *)
RenewedExpiryAbsolute(nowMs) == CANVAS_CAPABILITY_TTL_MS

(* client.canvasCapabilityExpiresAtMs = nowMs + CANVAS_CAPABILITY_TTL_MS *)
RenewedExpiry(nowMs) == nowMs + CANVAS_CAPABILITY_TTL_MS

(* The for-loop over the set, from position i: the first match, or 0. *)
RECURSIVE FirstAuthorizedFrom(_, _, _, _)
FirstAuthorizedFrom(cs, i, capability, nowMs) ==
    IF i > Len(cs) THEN 0
    ELSE IF MatchesCapability(cs[i], capability, nowMs) THEN i
    ELSE FirstAuthorizedFrom(cs, i + 1, capability, nowMs)

(* Faulty variant: the expiry is written to the first node session with    *)
(* the token, without reading its expiry in the state the write is made.   *)
hasAuthorizedNodeWsClientForCanvasCapabilityStale(cs, capability, nowMs) ==
    LET found == {i \in 1..Len(cs) :
                     isNodeWsClient(cs[i])
                         /\ safeEqualSecret(cs[i].canvasCapability, capability)}
        i == IF found = {} THEN 0 ELSE CHOOSE k \in found : \A j \in found : k <= j
    IN  IF i = 0
        THEN [ok |-> FALSE, clients |-> cs, index |-> 0]
        ELSE [ok |-> TRUE,
              clients |-> [cs EXCEPT ![i].canvasCapabilityExpiresAtMs =
                                         nowMs + CANVAS_CAPABILITY_TTL_MS],
              index |-> i]

(* Faulty variant: every session that matches is renewed, not only the    *)
(* first one the loop meets.                                               *)
hasAuthorizedNodeWsClientForCanvasCapabilityRenewAll(cs, capability, nowMs) ==
    LET i == FirstAuthorizedFrom(cs, 1, capability, nowMs)
    IN  IF i = 0
        THEN [ok |-> FALSE, clients |-> cs, index |-> 0]
        ELSE [ok |-> TRUE,
              clients |-> [k \in 1..Len(cs) |->
                              IF MatchesCapability(cs[k], capability, nowMs)
                              THEN [cs[k] EXCEPT !.canvasCapabilityExpiresAtMs =
                                                     nowMs + CANVAS_CAPABILITY_TTL_MS]
                              ELSE cs[k]],
              index |-> i]

(* hasAuthorizedNodeWsClientForCanvasCapability: the returned boolean and  *)
(* the session set after the call.                                         *)
hasAuthorizedNodeWsClientForCanvasCapability(cs, capability, nowMs) ==
    LET i == FirstAuthorizedFrom(cs, 1, capability, nowMs)
    IN  IF i = 0
        THEN [ok |-> FALSE, clients |-> cs, index |-> 0]
        ELSE [ok |-> TRUE,
              clients |-> [cs EXCEPT ![i].canvasCapabilityExpiresAtMs =
                                         RenewedExpiry(nowMs)],
              index |-> i]

----------------------------------------------------------------------------
(* Authorization verdicts (GatewayAuthResult). *)

AuthOk == [ok |-> TRUE, reason |-> "", rateLimited |-> FALSE, retryAfterMs |-> 0]
AuthUnauthorized ==
    [ok |-> FALSE, reason |-> "unauthorized", rateLimited |-> FALSE, retryAfterMs |-> 0]
AuthRateLimited(ms) ==
    [ok |-> FALSE, reason |-> "rate_limited", rateLimited |-> TRUE, retryAfterMs |-> ms]
NoVerdict == [ok |-> FALSE, reason |-> "<none>", rateLimited |-> FALSE, retryAfterMs |-> 0]

----------------------------------------------------------------------------
(* Rate limiter (auth-rate-limit.ts) and the gateway credential check      *)
(* (auth.ts): per caller, failures within the current window.              *)

Origins == {"loopback", "10.0.0.5"}

NoFailures == [failures |-> 0, windowEnd |-> 0]

(* The caller's record, forgotten once its window has elapsed. *)
LimiterEntry(lim, caller, nowMs) ==
    IF lim[caller].failures > 0 /\ nowMs >= lim[caller].windowEnd
    THEN NoFailures
    ELSE lim[caller]

LimiterCheck(lim, caller, nowMs) ==
    LET e == LimiterEntry(lim, caller, nowMs)
    IN  IF e.failures >= RateLimitMaxAttempts
        THEN [blocked |-> TRUE, retryAfterMs |-> e.windowEnd - nowMs]
        ELSE [blocked |-> FALSE, retryAfterMs |-> 0]

LimiterRecordFailure(lim, caller, nowMs) ==
    LET e == LimiterEntry(lim, caller, nowMs)
    IN  [lim EXCEPT ![caller] =
            IF e.failures = 0
            THEN [failures |-> 1, windowEnd |-> nowMs + RateLimitWindowMs]
            ELSE [failures |-> e.failures + 1, windowEnd |-> e.windowEnd]]

(* isLocalDirectRequest(req, trustedProxies) *)
isLocalDirectRequest(origin, proxies) ==
    origin = "loopback" \/ origin \in proxies

(* getBearerToken(req): the Authorization header's bearer credential. *)
getBearerToken(rec) == rec.bearer

(* authorizeGatewayConnect: the verdict and the limiter after the call.    *)
(* The limiter is consulted first; a blocked caller is denied whatever it  *)
(* presents; a credential that matches neither secret is a failure.        *)
authorizeGatewayConnect(auth, token, caller, lim, nowMs, hasLimiter) ==
    LET chk == LimiterCheck(lim, caller, nowMs)
    IN  IF hasLimiter /\ chk.blocked
        THEN [result |-> AuthRateLimited(chk.retryAfterMs), limiter |-> lim]
        ELSE IF auth.mode = "none"
                 \/ safeEqualSecret(token, auth.token)
                 \/ safeEqualSecret(token, auth.password)
        THEN [result |-> AuthOk, limiter |-> lim]
        ELSE [result |-> AuthUnauthorized,
              limiter |-> IF hasLimiter
                          THEN LimiterRecordFailure(lim, caller, nowMs)
                          ELSE lim]

----------------------------------------------------------------------------
(* Server options (the opts of createGatewayHttpServer and of              *)
(* attachGatewayUpgradeHandler), fixed when the server is created.         *)

FullOptions ==
    [canvasHost |-> TRUE, handlePluginRequest |-> TRUE, openResponsesEnabled |-> TRUE,
     openAiChatCompletionsEnabled |-> TRUE, controlUiEnabled |-> TRUE,
     rateLimiter |-> TRUE]

NoCanvasOptions == [FullOptions EXCEPT !.canvasHost = FALSE]

BareOptions ==
    [canvasHost |-> FALSE, handlePluginRequest |-> FALSE, openResponsesEnabled |-> FALSE,
     openAiChatCompletionsEnabled |-> FALSE, controlUiEnabled |-> FALSE,
     rateLimiter |-> FALSE]

NoLimiterOptions == [FullOptions EXCEPT !.rateLimiter = FALSE]

ServerOptions == {FullOptions, NoCanvasOptions, BareOptions}

----------------------------------------------------------------------------
(* Requests. *)

RequestUrls ==
    { <<"healthz">>,
      <<"health">>,
      <<"api", "channels", "qq">>,
      <<"api", "status">>,
      A2UI_PATH \o <<"index.html">>,
      CANVAS_CAPABILITY_PATH_PREFIX \o <<"T1">> \o A2UI_PATH \o <<"index.html">>,
      CANVAS_CAPABILITY_PATH_PREFIX \o <<"%E0%A4%A">> \o CANVAS_HOST_PATH,
      CANVAS_CAPABILITY_PATH_PREFIX \o <<"T1">> }

Bearers == {"", "test-token", "wrong"}

NoResponse ==
    [securityHeaders |-> FALSE, statusCode |-> 0, ended |-> 0, retryAfter |-> 0,
     allow |-> "", body |-> ""]

NoSocket ==
    [writes |-> <<>>, retryAfter |-> 0, errorType |-> "", destroyed |-> FALSE,
     accepted |-> {}]

IdleReq ==
    [kind |-> "idle", pc |-> "idle", url |-> <<>>, method |-> "", upgradeHdr |-> FALSE,
     bearer |-> "", origin |-> "", trustedProxies |-> {}, capability |-> "",
     malformedScopedPath |-> FALSE, gw |-> NoVerdict, verdict |-> NoVerdict,
     calls |-> {}, invoked |-> <<>>, res |-> NoResponse, socket |-> NoSocket,
     revoked |-> 0]

NewRequest(kind, url, method, upgradeHdr, bearer, origin) ==
    [IdleReq EXCEPT !.kind = kind, !.pc = "entry", !.url = url, !.method = method,
                    !.upgradeHdr = upgradeHdr, !.bearer = bearer, !.origin = origin]

(* Faulty variant: the status and body are set but the response is never  *)
(* ended.                                                                  *)
EndResponseUnended(res, status, body) == [res EXCEPT !.statusCode = status, !.body = body]

(* res.end(body) with a status: one more end of the response. *)
EndResponse(res, status, body) ==
    [res EXCEPT !.statusCode = status, !.ended = @ + 1, !.body = body]

(* JSON.stringify of a payload of the shape of gatewayHealthPayload. *)
JSONstringify(body) ==
    "{\"ok\":" \o (IF body.ok THEN "true" ELSE "false")
        \o ",\"status\":\"" \o body.status
        \o "\",\"service\":\"" \o body.service \o "\"}"

(* Faulty variant: the status is set but the payload is not serialised. *)
sendJsonWithoutBody(res, status, body) == EndResponse(res, status, "")

(* sendJson(res, status, body) *)
sendJson(res, status, body) == EndResponse(res, status, JSONstringify(body))

(* setDefaultSecurityHeaders(res) *)
setDefaultSecurityHeaders(res) == [res EXCEPT !.securityHeaders = TRUE]

(* Faulty variant: the delay is rounded down to whole seconds. *)
FloorSeconds(ms) == ms \div 1000

(* Math.ceil(ms / 1000) *)
CeilSeconds(ms) == (ms + 999) \div 1000

(* sendGatewayAuthFailure(res, authResult) of http-common.ts *)
sendGatewayAuthFailure(res, authResult) ==
    IF authResult.rateLimited
    THEN EndResponse(
             [res EXCEPT !.retryAfter =
                 IF authResult.retryAfterMs > 0 THEN CeilSeconds(authResult.retryAfterMs) ELSE 0],
             429, "rate_limited")
    ELSE EndResponse(res, 401, "Unauthorized")

(* Faulty variant: every denial is written as 401, rate-limited or not. *)
writeUpgradeAuthFailurePlain(socket, auth) ==
    IF socket.destroyed THEN socket
    ELSE [socket EXCEPT !.writes = Append(@, 401)]

(* writeUpgradeAuthFailure(socket, auth); nothing is written to a socket   *)
(* that has been destroyed.                                                *)
writeUpgradeAuthFailure(socket, auth) ==
    IF socket.destroyed THEN socket
    ELSE IF auth.rateLimited
    THEN [socket EXCEPT !.writes = Append(@, 429),
                        !.retryAfter =
                            IF auth.retryAfterMs > 0 THEN CeilSeconds(auth.retryAfterMs) ELSE 0,
                        !.errorType = "rate_limited"]
    ELSE [socket EXCEPT !.writes = Append(@, 401)]

(* socket.destroy() *)
destroy(socket) == [socket EXCEPT !.destroyed = TRUE]

(* Faulty variant: the catch ends the request without writing a response. *)
InternalServerErrorSilent(rec) == [rec EXCEPT !.pc = "done"]

(* The catch of handleRequest. *)
InternalServerError(rec) ==
    [rec EXCEPT !.pc = "done", !.res = EndResponse(@, 500, "Internal Server Error")]

(* Faulty variant: the end of the chain leaves the request unanswered. *)
NotFoundSilent(rec) == [rec EXCEPT !.pc = "done"]

(* The end of the chain: no handler claimed the request. *)
NotFound(rec) ==
    [rec EXCEPT !.pc = "done", !.res = EndResponse(@, 404, "Not Found")]

(* A handler that claims the request writes the response itself. *)
HandledBy(rec, handler) ==
    [rec EXCEPT !.pc = "done", !.invoked = Append(@, handler),
                !.res = EndResponse(@, 200, handler)]

HandlerOutcomes == {"handled", "declined", "throws"}

----------------------------------------------------------------------------
(* The dispatch chain of handleRequest: the stage a request enters next,   *)
(* skipping the handlers the options disable; past the last one, 404.      *)

RECURSIVE Advance(_, _, _)
Advance(o, rec, stage) ==
    CASE stage = "plugin" ->
            IF o.handlePluginRequest
            THEN [rec EXCEPT !.pc = IF isChannelPath(rec.url) THEN "plugin_auth" ELSE "plugin"]
            ELSE Advance(o, rec, "openresponses")
      [] stage = "openresponses" ->
            IF o.openResponsesEnabled
            THEN [rec EXCEPT !.pc = "openresponses"]
            ELSE Advance(o, rec, "openai")
      [] stage = "openai" ->
            IF o.openAiChatCompletionsEnabled
            THEN [rec EXCEPT !.pc = "openai"]
            ELSE Advance(o, rec, "canvas")
      [] stage = "canvas" ->
            IF o.canvasHost
            THEN [rec EXCEPT !.pc = IF isCanvasPath(rec.url) THEN "canvas_auth" ELSE "a2ui"]
            ELSE Advance(o, rec, "control_ui")
      [] stage = "control_ui" ->
            IF o.controlUiEnabled
            THEN [rec EXCEPT !.pc = "control_ui"]
            ELSE NotFound(rec)
      [] OTHER -> [rec EXCEPT !.pc = stage]

(* Faulty variant: a handler that claimed the request does not stop the    *)
(* chain; the request moves on to the next handler all the same.           *)
DispatchedThrough(o, rec, handler, outcome, next) ==
    CASE outcome = "handled" -> Advance(o, HandledBy(rec, handler), next)
      [] outcome = "throws" -> InternalServerError([rec EXCEPT !.invoked = Append(@, handler)])
      [] OTHER -> Advance(o, [rec EXCEPT !.invoked = Append(@, handler)], next)

(* One awaited handler of the chain returned: it claimed the request, it   *)
(* threw, or it declined and the request moves on to `next`.               *)
Dispatched(o, rec, handler, outcome, next) ==
    CASE outcome = "handled" -> HandledBy(rec, handler)
      [] outcome = "throws" -> InternalServerError([rec EXCEPT !.invoked = Append(@, handler)])
      [] OTHER -> Advance(o, [rec EXCEPT !.invoked = Append(@, handler)], next)

----------------------------------------------------------------------------
(* The Auth Resolver, authorizeCanvasRequest, in its synchronous segments. *)

(* Faulty variant: a presented token is accepted without consulting the    *)
(* live session set.                                                       *)
authorizeCanvasRequestTailTokenOnly(rec, lastAuthFailure, cs, nowMs) ==
    IF rec.capability # ""
    THEN [await |-> FALSE, verdict |-> AuthOk, clients |-> cs, calls |-> {"capability"}]
    ELSE [await |-> FALSE,
          verdict |-> IF lastAuthFailure = NoVerdict THEN AuthUnauthorized
                      ELSE lastAuthFailure,
          clients |-> cs, calls |-> {}]

(* Faulty variant: the presented token and the sessions' tokens are        *)
(* compared as they are, an absent token included.                         *)
authorizeCanvasRequestTailUnguarded(rec, lastAuthFailure, cs, nowMs) ==
    LET held == {i \in 1..Len(cs) :
                    isNodeWsClient(cs[i]) /\ cs[i].canvasCapability = rec.capability}
    IN  IF held # {}
        THEN [await |-> FALSE, verdict |-> AuthOk, clients |-> cs, calls |-> {"capability"}]
        ELSE [await |-> FALSE,
              verdict |-> IF lastAuthFailure = NoVerdict THEN AuthUnauthorized
                          ELSE lastAuthFailure,
              clients |-> cs, calls |-> {"capability"}]

(* Faulty variant: a denial of the bearer-credential check is final; the  *)
(* capability token is consulted only when no bearer credential was given. *)
authorizeCanvasRequestTailDenialFirst(rec, lastAuthFailure, cs, nowMs) ==
    LET h == hasAuthorizedNodeWsClientForCanvasCapability(cs, rec.capability, nowMs)
    IN  IF lastAuthFailure # NoVerdict
        THEN [await |-> FALSE, verdict |-> lastAuthFailure, clients |-> cs, calls |-> {}]
        ELSE IF rec.capability # "" /\ h.ok
        THEN [await |-> FALSE, verdict |-> AuthOk, clients |-> h.clients,
              calls |-> {"capability"}]
        ELSE [await |-> FALSE, verdict |-> AuthUnauthorized, clients |-> cs,
              calls |-> IF rec.capability # "" THEN {"capability"} ELSE {}]

(* From the capability check to the return. *)
authorizeCanvasRequestTail(rec, lastAuthFailure, cs, nowMs) ==
    LET h == hasAuthorizedNodeWsClientForCanvasCapability(cs, rec.capability, nowMs)
    IN  IF rec.capability # "" /\ h.ok
        THEN [await |-> FALSE, verdict |-> AuthOk, clients |-> h.clients,
              calls |-> {"capability"}]
        ELSE [await |-> FALSE,
              verdict |-> IF lastAuthFailure = NoVerdict THEN AuthUnauthorized
                          ELSE lastAuthFailure,
              clients |-> cs,
              calls |-> IF rec.capability # "" THEN {"capability"} ELSE {}]

(* Faulty variant: the bearer credential is looked at before the origin. *)
authorizeCanvasRequestEntryBearerFirst(rec, proxies, cs, nowMs) ==
    IF rec.malformedScopedPath
    THEN [await |-> FALSE, verdict |-> AuthUnauthorized, clients |-> cs, calls |-> {}]
    ELSE IF getBearerToken(rec) # ""
    THEN [await |-> TRUE, verdict |-> NoVerdict, clients |-> cs, calls |-> {}]
    ELSE IF isLocalDirectRequest(rec.origin, proxies)
    THEN [await |-> FALSE, verdict |-> AuthOk, clients |-> cs, calls |-> {}]
    ELSE authorizeCanvasRequestTail(rec, NoVerdict, cs, nowMs)

(* From the entry to the await of authorizeGatewayConnect, or to the return. *)
authorizeCanvasRequestEntry(rec, proxies, cs, nowMs) ==
    IF rec.malformedScopedPath
    THEN [await |-> FALSE, verdict |-> AuthUnauthorized, clients |-> cs, calls |-> {}]
    ELSE IF isLocalDirectRequest(rec.origin, proxies)
    THEN [await |-> FALSE, verdict |-> AuthOk, clients |-> cs, calls |-> {}]
    ELSE IF getBearerToken(rec) # ""
    THEN [await |-> TRUE, verdict |-> NoVerdict, clients |-> cs, calls |-> {}]
    ELSE authorizeCanvasRequestTail(rec, NoVerdict, cs, nowMs)

(* Faulty variant: the denial of the bearer-credential check is forgotten, *)
(* so a rate-limited caller is answered as plainly unauthorized.           *)
authorizeCanvasRequestResumeBare(rec, cs, nowMs) ==
    IF rec.gw.ok
    THEN [await |-> FALSE, verdict |-> rec.gw, clients |-> cs, calls |-> {}]
    ELSE authorizeCanvasRequestTail(rec, NoVerdict, cs, nowMs)

(* From the resumption of that await to the return. *)
authorizeCanvasRequestResume(rec, cs, nowMs) ==
    IF rec.gw.ok
    THEN [await |-> FALSE, verdict |-> rec.gw, clients |-> cs, calls |-> {}]
    ELSE authorizeCanvasRequestTail(rec, rec.gw, cs, nowMs)

----------------------------------------------------------------------------
(* Initial state: a server just created, no session, no request. *)

(* The control UI is not open. *)
NoNavigation ==
    [pc |-> "closed", tab |-> "", basePath |-> <<>>, pathname |-> <<>>,
     tabFromPath |-> "", inferredBasePath |-> <<>>]

InitGateway(options) ==
    /\ clients = <<>>
    /\ now = 0
    /\ trustedProxies = {}
    /\ limiter = [c \in Origins |-> NoFailures]
    /\ opts \in options
    /\ liveAuth = resolvedAuth
    /\ req = [r \in Slots |-> IdleReq]

(* No webhook body is being read. *)
NoReader ==
    [pc |-> "idle", maxBytes |-> 0, chunks |-> <<>>, totalBytes |-> 0,
     settled |-> FALSE, timer |-> FALSE, resolveCalls |-> 0,
     result |-> "<pending>", rawBody |-> 0, destroyed |-> FALSE,
     ended |-> FALSE, errored |-> FALSE, delivered |-> 0, lastEvent |-> ""]

InitWith(options) == InitGateway(options) /\ nav = NoNavigation /\ reader = NoReader

Init == InitWith(ServerOptions)

----------------------------------------------------------------------------
(* The HTTP path: handleRequest. *)

(* A request or upgrade inside a handler of the chain touches no shared    *)
(* state until it reaches one of these positions (or ends), so its steps   *)
(* there commute with every other step: they are taken at once, before any *)
(* other request or the environment moves on.                              *)
SharedStatePcs == {"idle", "plugin_auth", "canvas_auth", "canvas_gw", "canvas_resume"}

Settled == \A r \in Slots : req[r].pc \in SharedStatePcs

MayStep(r) == \A q \in Slots \ {r} : req[q].pc \in SharedStatePcs

(* The inputs of a request. A field the code never reads for a request     *)
(* (anything but the header on an upgrade request, the method off the      *)
(* health paths) is held fixed there.                                      *)
HttpInputs ==
    { i \in [url : RequestUrls, method : {"GET", "POST"}, upgradeHdr : BOOLEAN,
             bearer : Bearers, origin : Origins] :
        /\ i.upgradeHdr => (i.method = "GET" /\ i.bearer = "" /\ i.origin = "loopback")
        /\ i.method = "POST" => isGatewayHealthPath(i.url) }

(* Faulty variant: the malformed path falls through into the chain as if   *)
(* it were unscoped.                                                       *)
RejectMalformedRequestUnscoped(rec) == [rec EXCEPT !.pc = "hooks"]

(* if (scopedCanvas.malformedScopedPath) { sendGatewayAuthFailure; return } *)
RejectMalformedRequest(rec) ==
    [rec EXCEPT !.pc = "done", !.res = sendGatewayAuthFailure(@, AuthUnauthorized)]

(* Faulty variant: the response is handed on without the default headers. *)
EnterHandleRequestBare(rec) == rec

(* async function handleRequest(req, res) { setDefaultSecurityHeaders(res); *)
EnterHandleRequest(rec) == [rec EXCEPT !.res = setDefaultSecurityHeaders(@)]

(* Faulty variant: a request carrying the upgrade header enters the chain. *)
IgnoreUpgradeRequestRouted(rec) ==
    [rec EXCEPT !.pc = "hooks", !.calls = {"normalizeCanvasScopedUrl"}]

(* if (req.headers.upgrade is "websocket") return; the "upgrade" listener  *)
(* owns the request.                                                       *)
IgnoreUpgradeRequest(rec) == [rec EXCEPT !.pc = "done"]

(* Faulty variant: the refusal does not name the allowed method. *)
MethodNotAllowedWithoutAllow(rec) ==
    [rec EXCEPT !.pc = "done", !.res = EndResponse(@, 405, "Method Not Allowed")]

(* if (req.method !== "GET") { 405, Allow: GET, "Method Not Allowed" } *)
MethodNotAllowed(rec) ==
    [rec EXCEPT !.pc = "done",
                !.res = EndResponse([@ EXCEPT !.allow = "GET"], 405, "Method Not Allowed")]

(* The "request" event: handleRequest from its entry to the first await.   *)
HandleRequest(r, inputs, faults) ==
    /\ MayStep(r)
    /\ req[r].kind = "idle"
    /\ \E i \in inputs, configLoads \in {TRUE} \cup {~f : f \in faults} :
        LET rec0 == EnterHandleRequest(
                        NewRequest("http", i.url, i.method, i.upgradeHdr, i.bearer, i.origin))
            scopedCanvas == normalizeCanvasScopedUrl(i.url)
            rec1 == [rec0 EXCEPT !.trustedProxies = trustedProxies,
                                 !.calls = {"normalizeCanvasScopedUrl"},
                                 !.malformedScopedPath = scopedCanvas.malformedScopedPath,
                                 !.capability = scopedCanvas.capability,
                                 !.url = IF scopedCanvas.rewrittenUrl # NoUrl
                                         THEN scopedCanvas.rewrittenUrl ELSE i.url]
            requestPath == rec1.url
        IN  req' = [req EXCEPT ![r] =
              IF i.upgradeHdr THEN IgnoreUpgradeRequest(rec0)
              ELSE IF ~configLoads THEN InternalServerError(rec0)
              ELSE IF scopedCanvas.malformedScopedPath
              THEN RejectMalformedRequest(rec1)
              ELSE IF isGatewayHealthPath(requestPath)
              THEN IF i.method # "GET"
                   THEN MethodNotAllowed(rec1)
                   ELSE [rec1 EXCEPT !.pc = "done",
                                     !.res = sendJson(@, 200, gatewayHealthPayload)]
              ELSE [rec1 EXCEPT !.pc = "hooks"]]
    /\ UNCHANGED <<clients, now, trustedProxies, limiter, opts, liveAuth, nav, reader>>

(* await handleHooksRequest(req, res) *)
HooksStep(r, outcomes) ==
    /\ MayStep(r)
    /\ req[r].kind = "http" /\ req[r].pc = "hooks"
    /\ \E outcome \in outcomes :
        req' = [req EXCEPT ![r] = Dispatched(opts, @, "handleHooksRequest", outcome, "tools")]
    /\ UNCHANGED <<clients, now, trustedProxies, limiter, opts, liveAuth, nav, reader>>

(* await handleToolsInvokeHttpRequest(req, res, ...) *)
ToolsInvokeStep(r, outcomes) ==
    /\ MayStep(r)
    /\ req[r].kind = "http" /\ req[r].pc = "tools"
    /\ \E outcome \in outcomes :
        req' = [req EXCEPT ![r] =
                   Dispatched(opts, @, "handleToolsInvokeHttpRequest", outcome, "slack")]
    /\ UNCHANGED <<clients, now, trustedProxies, limiter, opts, liveAuth, nav, reader>>

(* await handleSlackHttpRequest(req, res) *)
SlackStep(r, outcomes) ==
    /\ MayStep(r)
    /\ req[r].kind = "http" /\ req[r].pc = "slack"
    /\ \E outcome \in outcomes :
        req' = [req EXCEPT ![r] =
                   Dispatched(opts, @, "handleSlackHttpRequest", outcome, "plugin")]
    /\ UNCHANGED <<clients, now, trustedProxies, limiter, opts, liveAuth, nav, reader>>

(* Faulty variant: the plugin handler is reached whatever the verdict. *)
ChannelRouteVerdictOpen(rec, authResult) ==
    [rec EXCEPT !.pc = "plugin", !.gw = authResult, !.verdict = authResult]

(* Faulty variant: an error of the credential check or of the limiter is   *)
(* swallowed and the request goes on as if it had been authorized.         *)
AuthorizationThrewOpen(rec) ==
    IF rec.kind = "http"
    THEN [rec EXCEPT !.pc = IF isChannelPath(rec.url) THEN "plugin" ELSE "a2ui",
                     !.verdict = AuthOk]
    ELSE [rec EXCEPT !.pc = "done", !.verdict = AuthOk,
                     !.invoked = Append(@, "wss.handleUpgrade")]

(* authorizeGatewayConnect (or the limiter it consults) threw: nothing      *)
(* between the await and the caller's catch handles the error.              *)
AuthorizationThrew(rec) ==
    IF rec.kind = "http"
    THEN InternalServerError(rec)
    ELSE [rec EXCEPT !.pc = "done", !.socket = destroy(@)]

(* What handleRequest does with the verdict of the channel-route check. *)
ChannelRouteVerdict(rec, authResult) ==
    IF ~authResult.ok
    THEN [rec EXCEPT !.pc = "done", !.gw = authResult, !.verdict = authResult,
                     !.res = sendGatewayAuthFailure(@, authResult)]
    ELSE [rec EXCEPT !.pc = "plugin", !.gw = authResult, !.verdict = authResult]

(* The re-authorization of /api/channels/ routes: authorizeGatewayConnect  *)
(* with the request's bearer credential, and what follows its await.       *)
PluginAuthorizeStep(r, faults) ==
    /\ MayStep(r)
    /\ req[r].kind = "http" /\ req[r].pc = "plugin_auth"
    /\ \E checkFails \in {FALSE} \cup faults :
        LET rec == req[r]
            a == authorizeGatewayConnect(resolvedAuth, getBearerToken(rec), rec.origin,
                                         limiter, now, opts.rateLimiter)
            called == [rec EXCEPT !.calls = @ \cup {"authorizeGatewayConnect"}]
        IN  IF checkFails
            THEN /\ req' = [req EXCEPT ![r] = AuthorizationThrew(called)]
                 /\ UNCHANGED limiter
            ELSE /\ limiter' = a.limiter
                 /\ req' = [req EXCEPT ![r] = ChannelRouteVerdict(called, a.result)]
    /\ UNCHANGED <<clients, now, trustedProxies, opts, liveAuth, nav, reader>>

(* await handlePluginRequest(req, res) *)
PluginStep(r, outcomes) ==
    /\ MayStep(r)
    /\ req[r].kind = "http" /\ req[r].pc = "plugin"
    /\ \E outcome \in outcomes :
        req' = [req EXCEPT ![r] =
                   Dispatched(opts, @, "handlePluginRequest", outcome, "openresponses")]
    /\ UNCHANGED <<clients, now, trustedProxies, limiter, opts, liveAuth, nav, reader>>

(* await handleOpenResponsesHttpRequest(req, res, ...) *)
OpenResponsesStep(r, outcomes) ==
    /\ MayStep(r)
    /\ req[r].kind = "http" /\ req[r].pc = "openresponses"
    /\ \E outcome \in outcomes :
        req' = [req EXCEPT ![r] =
                   Dispatched(opts, @, "handleOpenResponsesHttpRequest", outcome, "openai")]
    /\ UNCHANGED <<clients, now, trustedProxies, limiter, opts, liveAuth, nav, reader>>

(* await handleOpenAiHttpRequest(req, res, ...) *)
OpenAiStep(r, outcomes) ==
    /\ MayStep(r)
    /\ req[r].kind = "http" /\ req[r].pc = "openai"
    /\ \E outcome \in outcomes :
        req' = [req EXCEPT ![r] =
                   Dispatched(opts, @, "handleOpenAiHttpRequest", outcome, "canvas")]
    /\ UNCHANGED <<clients, now, trustedProxies, limiter, opts, liveAuth, nav, reader>>


(* Faulty variant: the canvas handlers are reached whatever the verdict. *)
HttpCanvasVerdictOpen(rec, v) == [rec EXCEPT !.pc = "a2ui", !.verdict = v]

(* What handleRequest does with the Auth Resolver's verdict. *)
HttpCanvasVerdict(rec, v) ==
    IF ~v.ok
    THEN [rec EXCEPT !.pc = "done", !.verdict = v, !.res = sendGatewayAuthFailure(@, v)]
    ELSE [rec EXCEPT !.pc = "a2ui", !.verdict = v]

(* Faulty variant: the upgrade is passed to the WebSocket server even when *)
(* the canvas host has taken it.                                           *)
AcceptUpgradeBoth(o, rec, ch, ws) ==
    LET viaWss(rc) ==
            IF ws = "throws"
            THEN [rc EXCEPT !.pc = "done", !.invoked = Append(@, "wss.handleUpgrade"),
                            !.socket = destroy(@)]
            ELSE [rc EXCEPT !.pc = "done", !.invoked = Append(@, "wss.handleUpgrade"),
                            !.socket.accepted = @ \cup {"wss.handleUpgrade"}]
    IN  IF o.canvasHost
        THEN CASE ch = "handled" ->
                    viaWss([rec EXCEPT !.invoked = Append(@, "canvasHost.handleUpgrade"),
                                       !.socket.accepted = @ \cup {"canvasHost.handleUpgrade"}])
               [] ch = "throws" ->
                    [rec EXCEPT !.pc = "done",
                                !.invoked = Append(@, "canvasHost.handleUpgrade"),
                                !.socket = destroy(@)]
               [] OTHER ->
                    viaWss([rec EXCEPT !.invoked = Append(@, "canvasHost.handleUpgrade")])
        ELSE viaWss(rec)

(* The accepting handlers of the upgrade path, both synchronous: the canvas *)
(* host first when there is one, then the WebSocket server. A handler that  *)
(* takes the socket is recorded in socket.accepted.                         *)
AcceptUpgrade(o, rec, ch, ws) ==
    LET viaWss(rc) ==
            IF ws = "throws"
            THEN [rc EXCEPT !.pc = "done", !.invoked = Append(@, "wss.handleUpgrade"),
                            !.socket = destroy(@)]
            ELSE [rc EXCEPT !.pc = "done", !.invoked = Append(@, "wss.handleUpgrade"),
                            !.socket.accepted = @ \cup {"wss.handleUpgrade"}]
    IN  IF o.canvasHost
        THEN CASE ch = "handled" ->
                    [rec EXCEPT !.pc = "done",
                                !.invoked = Append(@, "canvasHost.handleUpgrade"),
                                !.socket.accepted = @ \cup {"canvasHost.handleUpgrade"}]
               [] ch = "throws" ->
                    [rec EXCEPT !.pc = "done",
                                !.invoked = Append(@, "canvasHost.handleUpgrade"),
                                !.socket = destroy(@)]
               [] OTHER ->
                    viaWss([rec EXCEPT !.invoked = Append(@, "canvasHost.handleUpgrade")])
        ELSE viaWss(rec)

(* Faulty variant: the handshake is handed on whatever the verdict. *)
UpgradeCanvasVerdictOpen(o, rec, v, ch, ws) ==
    AcceptUpgrade(o, [rec EXCEPT !.verdict = v], ch, ws)

(* What the upgrade handler does with the Auth Resolver's verdict. *)
UpgradeCanvasVerdict(o, rec, v, ch, ws) ==
    IF ~v.ok
    THEN [rec EXCEPT !.pc = "done", !.verdict = v,
                     !.socket = destroy(writeUpgradeAuthFailure(@, v))]
    ELSE AcceptUpgrade(o, [rec EXCEPT !.verdict = v], ch, ws)

(* isCanvasPath(requestPath): authorizeCanvasRequest up to its await. *)
CanvasAuthorizeStep(r) ==
    /\ MayStep(r)
    /\ req[r].kind = "http" /\ req[r].pc = "canvas_auth"
    /\ LET rec == req[r]
           a == authorizeCanvasRequestEntry(rec, rec.trustedProxies, clients, now)
           called == [rec EXCEPT !.calls = @ \cup {"authorizeCanvasRequest"} \cup a.calls]
       IN  /\ clients' = a.clients
           /\ req' = [req EXCEPT ![r] =
                 IF a.await THEN [called EXCEPT !.pc = "canvas_gw"]
                 ELSE HttpCanvasVerdict(called, a.verdict)]
    /\ UNCHANGED <<now, trustedProxies, limiter, opts, liveAuth, nav, reader>>

(* authorizeGatewayConnect, awaited by authorizeCanvasRequest, completes   *)
(* (or fails with an error, which the caller's catch receives).            *)
CanvasGatewayConnectStep(r, faults) ==
    /\ MayStep(r)
    /\ req[r].pc = "canvas_gw"
    /\ \E checkFails \in {FALSE} \cup faults :
        LET rec == req[r]
            a == authorizeGatewayConnect(resolvedAuth,
                                         getBearerToken(rec), rec.origin,
                                         limiter, now, opts.rateLimiter)
            called == [rec EXCEPT !.calls = @ \cup {"authorizeGatewayConnect"}]
        IN  IF checkFails
            THEN /\ req' = [req EXCEPT ![r] = AuthorizationThrew(called)]
                 /\ UNCHANGED limiter
            ELSE /\ limiter' = a.limiter
                 /\ req' = [req EXCEPT ![r] = [called EXCEPT !.pc = "canvas_resume",
                                                             !.gw = a.result]]
    /\ UNCHANGED <<clients, now, trustedProxies, opts, liveAuth, nav, reader>>

(* authorizeCanvasRequest resumes after that await and returns; its caller *)
(* acts on the verdict.                                                    *)
CanvasResumeStep(r, outcomes) ==
    /\ MayStep(r)
    /\ req[r].pc = "canvas_resume"
    /\ \E ch \in outcomes, ws \in outcomes \ {"declined"} :
        LET rec == req[r]
            a == authorizeCanvasRequestResume(rec, clients, now)
            called == [rec EXCEPT !.calls = @ \cup a.calls]
        IN  /\ clients' = a.clients
            /\ req' = [req EXCEPT ![r] =
                  IF rec.kind = "http" THEN HttpCanvasVerdict(called, a.verdict)
                  ELSE UpgradeCanvasVerdict(opts, called, a.verdict, ch, ws)]
    /\ UNCHANGED <<now, trustedProxies, limiter, opts, liveAuth, nav, reader>>

(* await handleA2uiHttpRequest(req, res) *)
A2uiStep(r, outcomes) ==
    /\ MayStep(r)
    /\ req[r].kind = "http" /\ req[r].pc = "a2ui"
    /\ \E outcome \in outcomes :
        req' = [req EXCEPT ![r] =
                   Dispatched(opts, @, "handleA2uiHttpRequest", outcome, "canvas_host")]
    /\ UNCHANGED <<clients, now, trustedProxies, limiter, opts, liveAuth, nav, reader>>

(* await canvasHost.handleHttpRequest(req, res) *)
CanvasHostStep(r, outcomes) ==
    /\ MayStep(r)
    /\ req[r].kind = "http" /\ req[r].pc = "canvas_host"
    /\ \E outcome \in outcomes :
        req' = [req EXCEPT ![r] =
                   Dispatched(opts, @, "canvasHost.handleHttpRequest", outcome, "control_ui")]
    /\ UNCHANGED <<clients, now, trustedProxies, limiter, opts, liveAuth, nav, reader>>

(* The two synchronous control UI handlers, then 404. *)
ControlUiStep(r, outcomes) ==
    /\ MayStep(r)
    /\ req[r].kind = "http" /\ req[r].pc = "control_ui"
    /\ \E avatar \in outcomes, static \in outcomes :
        LET rec == req[r]
            afterAvatar == [rec EXCEPT !.invoked = Append(@, "handleControlUiAvatarRequest")]
            afterStatic ==
                [afterAvatar EXCEPT !.invoked = Append(@, "handleControlUiHttpRequest")]
        IN  req' = [req EXCEPT ![r] =
              CASE avatar = "handled" -> HandledBy(rec, "handleControlUiAvatarRequest")
                [] avatar = "throws" -> InternalServerError(afterAvatar)
                [] static = "handled" -> HandledBy(afterAvatar, "handleControlUiHttpRequest")
                [] static = "throws" -> InternalServerError(afterStatic)
                [] OTHER -> NotFound(afterStatic)]
    /\ UNCHANGED <<clients, now, trustedProxies, limiter, opts, liveAuth, nav, reader>>

----------------------------------------------------------------------------
(* The upgrade path: the "upgrade" listener of attachGatewayUpgradeHandler. *)

UpgradeUrls ==
    { <<"api", "status">>,
      CANVAS_WS_PATH,
      CANVAS_CAPABILITY_PATH_PREFIX \o <<"T%31">> \o CANVAS_WS_PATH,
      CANVAS_CAPABILITY_PATH_PREFIX \o <<"%E0%A4%A">> \o CANVAS_WS_PATH,
      CANVAS_CAPABILITY_PATH_PREFIX \o <<"T1">> }

UpgradeInputs == [url : UpgradeUrls, bearer : Bearers, origin : Origins]

(* if (scopedCanvas.malformedScopedPath) { write 401; socket.destroy(); return } *)
RejectMalformedUpgrade(rec) ==
    [rec EXCEPT !.pc = "done",
                !.socket = destroy(writeUpgradeAuthFailure(@, AuthUnauthorized))]

(* The "upgrade" event: the listener from its entry to the first await.    *)
UpgradeRequest(r, inputs, outcomes, faults) ==
    /\ MayStep(r)
    /\ req[r].kind = "idle"
    /\ \E i \in inputs, configLoads \in {TRUE} \cup {~f : f \in faults},
          ch \in outcomes, ws \in outcomes \ {"declined"} :
        LET rec0 == NewRequest("upgrade", i.url, "GET", TRUE, i.bearer, i.origin)
            scopedCanvas == normalizeCanvasScopedUrl(i.url)
            rec1 == [rec0 EXCEPT !.calls = {"normalizeCanvasScopedUrl"},
                                 !.malformedScopedPath = scopedCanvas.malformedScopedPath,
                                 !.capability = scopedCanvas.capability,
                                 !.url = IF scopedCanvas.rewrittenUrl # NoUrl
                                         THEN scopedCanvas.rewrittenUrl ELSE i.url]
            rec2 == [rec1 EXCEPT !.trustedProxies = trustedProxies,
                                 !.calls = @ \cup {"authorizeCanvasRequest"}]
            a == authorizeCanvasRequestEntry(rec2, trustedProxies, clients, now)
            called == [rec2 EXCEPT !.calls = @ \cup a.calls]
        IN  IF scopedCanvas.malformedScopedPath
            THEN /\ req' = [req EXCEPT ![r] = RejectMalformedUpgrade(rec1)]
                 /\ UNCHANGED clients
            ELSE IF opts.canvasHost /\ rec1.url = CANVAS_WS_PATH
            THEN IF ~configLoads
                 THEN /\ req' = [req EXCEPT ![r] =
                            [rec1 EXCEPT !.pc = "done", !.socket = destroy(@)]]
                      /\ UNCHANGED clients
                 ELSE /\ clients' = a.clients
                      /\ req' = [req EXCEPT ![r] =
                            IF a.await THEN [called EXCEPT !.pc = "canvas_gw"]
                            ELSE UpgradeCanvasVerdict(opts, called, a.verdict, ch, ws)]
            ELSE /\ req' = [req EXCEPT ![r] = AcceptUpgrade(opts, rec1, ch, ws)]
                 /\ UNCHANGED clients
    /\ UNCHANGED <<now, trustedProxies, limiter, opts, liveAuth, nav, reader>>

(* The request or upgrade is over; its slot is free again. *)
Retire(r) ==
    /\ MayStep(r)
    /\ req[r].pc = "done"
    /\ req' = [req EXCEPT ![r] = IdleReq]
    /\ UNCHANGED <<clients, now, trustedProxies, limiter, opts, liveAuth, nav, reader>>

----------------------------------------------------------------------------
(* The environment: the WebSocket connection lifecycle, the clock and the  *)
(* hot-reloaded configuration.                                             *)

(* A connection completes its handshake and joins the session set. *)
Connect(kinds, caps, max) ==
    /\ Settled
    /\ Len(clients) < max
    /\ \E k \in kinds, cap \in caps :
        clients' = Append(clients,
            [role |-> k.role, mode |-> k.mode, canvasCapability |-> cap,
             canvasCapabilityExpiresAtMs |->
                 IF cap = "" THEN 0 ELSE now + CANVAS_CAPABILITY_TTL_MS])
    /\ UNCHANGED <<now, trustedProxies, limiter, opts, liveAuth, req, nav, reader>>

(* A connection closes: its session leaves the set. *)
Disconnect(i) ==
    /\ Settled
    /\ i \in 1..Len(clients)
    /\ clients' = SubSeq(clients, 1, i - 1) \o SubSeq(clients, i + 1, Len(clients))
    /\ req' = [r \in Slots |->
                  IF /\ req[r].pc \in {"canvas_gw", "canvas_resume"}
                     /\ MatchesCapability(clients[i], req[r].capability, now)
                  THEN [req[r] EXCEPT !.revoked = clients[i].canvasCapabilityExpiresAtMs]
                  ELSE req[r]]
    /\ UNCHANGED <<now, trustedProxies, limiter, opts, liveAuth, nav, reader>>

(* The connection's message loop replaces or drops its capability. *)
MessageLoopUpdate(i, caps) ==
    /\ Settled
    /\ i \in 1..Len(clients)
    /\ \E cap \in caps :
        /\ cap # clients[i].canvasCapability
        /\ clients' = [clients EXCEPT ![i].canvasCapability = cap,
                          ![i].canvasCapabilityExpiresAtMs =
                              IF cap = "" THEN 0 ELSE now + CANVAS_CAPABILITY_TTL_MS]
    /\ UNCHANGED <<now, trustedProxies, limiter, opts, liveAuth, req, nav, reader>>

Tick ==
    /\ Settled
    /\ \E t \in TimePoints : t > now /\ now' = t
    /\ UNCHANGED <<clients, trustedProxies, limiter, opts, liveAuth, req, nav, reader>>

ReloadConfig ==
    /\ Settled
    /\ \E p \in {{}, {"10.0.0.5"}} : p # trustedProxies /\ trustedProxies' = p
    /\ UNCHANGED <<clients, now, limiter, opts, liveAuth, req, nav, reader>>

(* The live configuration's gateway.auth changes between two requests:     *)
(* authentication is switched off, or back to the token it started with.   *)
ReloadAuth ==
    /\ \A r \in Slots : req[r].kind = "idle"
    /\ \E a \in {resolvedAuth, [resolvedAuth EXCEPT !.mode = "none"]} :
          a # liveAuth /\ liveAuth' = a
    /\ UNCHANGED <<clients, now, trustedProxies, limiter, opts, req, nav, reader>>

----------------------------------------------------------------------------
(* The router: one request or upgrade at a time through the whole chain,   *)
(* every handler free to claim, decline or throw, every collaborator free  *)
(* to fail; node sessions connect and disconnect around it.                *)

Faults == {TRUE}

NodeKinds == {k \in SessionKinds : k.role = "node"}

Next ==
    \/ HandleRequest(1, HttpInputs, Faults)
    \/ HooksStep(1, HandlerOutcomes)
    \/ ToolsInvokeStep(1, HandlerOutcomes)
    \/ SlackStep(1, HandlerOutcomes)
    \/ PluginAuthorizeStep(1, Faults)
    \/ PluginStep(1, HandlerOutcomes)
    \/ OpenResponsesStep(1, HandlerOutcomes)
    \/ OpenAiStep(1, HandlerOutcomes)
    \/ CanvasAuthorizeStep(1)
    \/ CanvasGatewayConnectStep(1, Faults)
    \/ CanvasResumeStep(1, HandlerOutcomes)
    \/ A2uiStep(1, HandlerOutcomes)
    \/ CanvasHostStep(1, HandlerOutcomes)
    \/ ControlUiStep(1, HandlerOutcomes)
    \/ UpgradeRequest(1, UpgradeInputs, HandlerOutcomes, Faults)
    \/ Retire(1)
    \/ Connect(NodeKinds, {"T1"}, MaxClients)
    \/ \E i \in 1..MaxClients : Disconnect(i)

Spec == Init /\ [][Next]_vars

----------------------------------------------------------------------------
(* The rate limiter under load: one request or upgrade at a time from one  *)
(* untrusted caller to a canvas path, the canvas WebSocket endpoint or a   *)
(* channel route, with any credential, while the clock advances and a node *)
(* session comes and goes. The handlers before the gate decline, the gated *)
(* handler claims the request.                                             *)

(* The path a URL is routed by: the normalizer's rewritten URL if any. *)
RoutedPath(url) ==
    LET n == normalizeCanvasScopedUrl(url)
    IN  IF n.rewrittenUrl # NoUrl THEN n.rewrittenUrl ELSE url

GatedPath(url) ==
    /\ ~normalizeCanvasScopedUrl(url).malformedScopedPath
    /\ isCanvasPath(RoutedPath(url)) \/ isChannelPath(RoutedPath(url))

GatedHttpInputs == {i \in HttpInputs : GatedPath(i.url) /\ ~i.upgradeHdr}

GatedUpgradeInputs == {i \in UpgradeInputs : GatedPath(i.url)}

RequestStepsAuth(r, httpInputs, upgradeInputs) ==
    \/ HandleRequest(r, httpInputs, {})
    \/ HooksStep(r, {"declined"})
    \/ ToolsInvokeStep(r, {"declined"})
    \/ SlackStep(r, {"declined"})
    \/ PluginAuthorizeStep(r, {})
    \/ PluginStep(r, {"handled", "declined"})
    \/ OpenResponsesStep(r, {"declined"})
    \/ OpenAiStep(r, {"declined"})
    \/ CanvasAuthorizeStep(r)
    \/ CanvasGatewayConnectStep(r, {})
    \/ CanvasResumeStep(r, {"handled"})
    \/ A2uiStep(r, {"handled"})
    \/ UpgradeRequest(r, upgradeInputs, {"handled"}, {})
    \/ Retire(r)

NextAuth ==
    \/ RequestStepsAuth(1, {i \in GatedHttpInputs : i.origin = "10.0.0.5"},
                           {i \in GatedUpgradeInputs : i.origin = "10.0.0.5"})
    \/ Connect(NodeKinds, {"T1"}, 1)
    \/ \E i \in 1..MaxClients : Disconnect(i)
    \/ Tick

SpecAuth == InitWith({FullOptions}) /\ [][NextAuth]_vars

----------------------------------------------------------------------------
(* Trusted origins: requests and upgrades to the gated routes from the     *)
(* loopback origin and from an address that the reloaded configuration     *)
(* lists as a trusted proxy at some times and not at others, around one    *)
(* node session.                                                           *)

NextTrust ==
    \/ RequestStepsAuth(1, GatedHttpInputs, GatedUpgradeInputs)
    \/ Connect(NodeKinds, {"T1"}, 1)
    \/ \E i \in 1..MaxClients : Disconnect(i)
    \/ Tick
    \/ ReloadConfig

SpecTrust == InitWith({FullOptions}) /\ [][NextTrust]_vars

----------------------------------------------------------------------------
(* Hot reload: the live configuration's auth settings and trusted-proxy    *)
(* list change between requests and upgrades to the gated routes, served   *)
(* by a server that is never recreated. No rate limiter is configured.     *)

NextReload ==
    \/ RequestStepsAuth(1, GatedHttpInputs, GatedUpgradeInputs)
    \/ Connect(NodeKinds, {"T1"}, 1)
    \/ \E i \in 1..MaxClients : Disconnect(i)
    \/ ReloadConfig
    \/ ReloadAuth

SpecReload == InitWith({NoLimiterOptions}) /\ [][NextReload]_vars

----------------------------------------------------------------------------
(* The Capability Registry: capability presentations from an untrusted     *)
(* origin, with no or a wrong bearer credential, against every kind of     *)
(* session connecting, dropping its token and disconnecting as the clock   *)
(* advances. No rate limiter is configured.                                *)

CapabilityInput(i) ==
    /\ isCanvasPath(RoutedPath(i.url))
    /\ i.bearer \in {"", "wrong"}
    /\ i.origin = "10.0.0.5"

CapabilityHttpInputs == {i \in GatedHttpInputs : CapabilityInput(i)}

CapabilityUpgradeInputs == {i \in GatedUpgradeInputs : CapabilityInput(i)}

RequestStepsRegistry(r) ==
    \/ HandleRequest(r, CapabilityHttpInputs, {})
    \/ HooksStep(r, {"declined"})
    \/ ToolsInvokeStep(r, {"declined"})
    \/ SlackStep(r, {"declined"})
    \/ PluginStep(r, {"declined"})
    \/ OpenResponsesStep(r, {"declined"})
    \/ OpenAiStep(r, {"declined"})
    \/ CanvasAuthorizeStep(r)
    \/ CanvasGatewayConnectStep(r, {})
    \/ CanvasResumeStep(r, {"handled"})
    \/ A2uiStep(r, {"handled"})
    \/ UpgradeRequest(r, CapabilityUpgradeInputs, {"handled"}, {})
    \/ Retire(r)

NextRegistry ==
    \/ RequestStepsRegistry(1)
    \/ Connect(SessionKinds, Tokens \cup {""}, MaxClients)
    \/ \E i \in 1..MaxClients : Disconnect(i) \/ MessageLoopUpdate(i, {""})
    \/ Tick

SpecRegistry == InitWith({NoLimiterOptions}) /\ [][NextRegistry]_vars

----------------------------------------------------------------------------
(* Concurrent capability checks: two requests or upgrades in flight at     *)
(* once, each free to be suspended in the bearer-credential check while    *)
(* the other runs and while node sessions holding the token connect, drop  *)
(* it and disconnect.                                                      *)

NextConcurrent ==
    \/ \E r \in Slots : RequestStepsRegistry(r)
    \/ Connect(NodeKinds, {"T1"}, MaxClients)
    \/ \E i \in 1..MaxClients : Disconnect(i) \/ MessageLoopUpdate(i, {""})
    \/ Tick

SpecConcurrent == InitWith({NoLimiterOptions}) /\ [][NextConcurrent]_vars

----------------------------------------------------------------------------
(* The control UI's navigation: the path functions of                       *)
(* src/unnamed/part_002. A string is the sequence of its tokens: the        *)
(* slash, the blank, and names (maximal runs of other characters), which    *)
(* is all these functions tell apart.                                       *)

Names == {"ui", "apps", "openclaw", "Cron"}

PathTokens == {"/", " "} \cup Names

(* A string never holds two names side by side: they would be one name. *)
WellTokenized(s) == \A k \in 1..(Len(s) - 1) : ~(s[k] \in Names /\ s[k + 1] \in Names)

Tabs ==
    {"agents", "overview", "channels", "runtime", "instances", "sessions", "usage",
     "cron", "skills", "nodes", "chat", "config", "debug", "logs"}

TAB_PATHS(tab) == <<"/", tab>>

null == "<null>"

(* PATH_TO_TAB.get(path) ?? null *)
PATH_TO_TAB(path) ==
    IF Len(path) = 2 /\ path[1] = "/" /\ path[2] \in Tabs THEN path[2] ELSE null

(* String.prototype.toLowerCase, name by name. *)
toLowerCase(s) == [k \in 1..Len(s) |-> IF s[k] = "Cron" THEN "cron" ELSE s[k]]

startsWith(s, prefix) == Len(s) >= Len(prefix) /\ SubSeq(s, 1, Len(prefix)) = prefix

endsWith(s, suffix) ==
    Len(s) >= Len(suffix) /\ SubSeq(s, Len(s) - Len(suffix) + 1, Len(s)) = suffix

RECURSIVE trimStart(_)
trimStart(s) == IF s # <<>> /\ Head(s) = " " THEN trimStart(Tail(s)) ELSE s

RECURSIVE trimEnd(_)
trimEnd(s) ==
    IF s # <<>> /\ s[Len(s)] = " " THEN trimEnd(SubSeq(s, 1, Len(s) - 1)) ELSE s

trim(s) == trimEnd(trimStart(s))

(* s.split("/").filter(Boolean) *)
RECURSIVE SplitSegments(_, _, _)
SplitSegments(s, current, segments) ==
    LET closed == IF current = <<>> THEN segments ELSE Append(segments, current)
    IN  IF s = <<>> THEN closed
        ELSE IF Head(s) = "/" THEN SplitSegments(Tail(s), <<>>, closed)
        ELSE SplitSegments(Tail(s), Append(current, Head(s)), segments)

(* segments.join("/") *)
RECURSIVE Join(_)
Join(segments) ==
    IF segments = <<>> THEN <<>>
    ELSE IF Len(segments) = 1 THEN segments[1]
    ELSE segments[1] \o <<"/">> \o Join(Tail(segments))

normalizeBasePath(basePath) ==
    IF basePath = <<>> THEN <<>>
    ELSE LET trimmed == trim(basePath)
             base == IF ~startsWith(trimmed, <<"/">>) THEN <<"/">> \o trimmed ELSE trimmed
         IN  IF base = <<"/">> THEN <<>>
             ELSE IF endsWith(base, <<"/">>) THEN SubSeq(base, 1, Len(base) - 1)
             ELSE base

normalizePath(path) ==
    IF path = <<>> THEN <<"/">>
    ELSE LET trimmed == trim(path)
             normalized ==
                 IF ~startsWith(trimmed, <<"/">>) THEN <<"/">> \o trimmed ELSE trimmed
         IN  IF Len(normalized) > 1 /\ endsWith(normalized, <<"/">>)
             THEN SubSeq(normalized, 1, Len(normalized) - 1)
             ELSE normalized

pathForTab(tab, basePath) ==
    LET base == normalizeBasePath(basePath)
        path == TAB_PATHS(tab)
    IN  IF base # <<>> THEN base \o path ELSE path

tabFromPath(pathname, basePath) ==
    LET base == normalizeBasePath(basePath)
        path0 == IF pathname = <<>> THEN <<"/">> ELSE pathname
        path == IF base # <<>>
                THEN IF path0 = base THEN <<"/">>
                     ELSE IF startsWith(path0, base \o <<"/">>)
                     THEN SubSeq(path0, Len(base) + 1, Len(path0))
                     ELSE path0
                ELSE path0
        lowered == toLowerCase(normalizePath(path))
        normalized == IF endsWith(lowered, <<"/", "index.html">>) THEN <<"/">> ELSE lowered
    IN  IF normalized = <<"/">> THEN "chat" ELSE PATH_TO_TAB(normalized)

(* The for loop of inferBasePathFromPathname, from index i on. *)
RECURSIVE InferFrom(_, _)
InferFrom(segments, i) ==
    IF i > Len(segments) THEN <<"/">> \o Join(segments)
    ELSE LET candidate ==
                 toLowerCase(<<"/">> \o Join(SubSeq(segments, i, Len(segments))))
             prefix == SubSeq(segments, 1, i - 1)
         IN  IF PATH_TO_TAB(candidate) # null
             THEN IF prefix # <<>> THEN <<"/">> \o Join(prefix) ELSE <<>>
             ELSE InferFrom(segments, i + 1)

inferBasePathFromPathname(pathname) ==
    LET normalized0 == normalizePath(pathname)
        normalized ==
            IF endsWith(normalized0, <<"/", "index.html">>)
            THEN normalizePath(SubSeq(normalized0, 1, Len(normalized0) - 2))
            ELSE normalized0
        segments == SplitSegments(normalized, <<>>, <<>>)
    IN  IF normalized = <<"/">> THEN <<>>
        ELSE IF segments = <<>> THEN <<>>
        ELSE InferFrom(segments, 1)

(* The base paths a deployment may configure. *)
BasePaths ==
    { s \in UNION {[1..n -> PathTokens] : n \in 0..MaxBaseLen} : WellTokenized(s) }

(* A link to a tab is built under the configured base path. *)
PathForTab ==
    /\ nav.pc = "open"
    /\ nav' = [nav EXCEPT !.pc = "linked", !.pathname = pathForTab(nav.tab, nav.basePath)]
    /\ UNCHANGED <<clients, now, trustedProxies, limiter, opts, liveAuth, req, reader>>

(* The link is followed: the tab is read back from the pathname. *)
TabFromPath ==
    /\ nav.pc = "linked"
    /\ nav' = [nav EXCEPT !.pc = "routed",
                          !.tabFromPath = tabFromPath(nav.pathname, nav.basePath)]
    /\ UNCHANGED <<clients, now, trustedProxies, limiter, opts, liveAuth, req, reader>>

(* The page is loaded at the link: the base path is inferred from it. *)
InferBasePathFromPathname ==
    /\ nav.pc = "routed"
    /\ nav' = [nav EXCEPT !.pc = "resolved",
                          !.inferredBasePath = inferBasePathFromPathname(nav.pathname)]
    /\ UNCHANGED <<clients, now, trustedProxies, limiter, opts, liveAuth, req, reader>>

InitNavigation ==
    /\ InitGateway({BareOptions})
    /\ reader = NoReader
    /\ nav \in { [NoNavigation EXCEPT !.pc = "open", !.tab = tab, !.basePath = base] :
                    tab \in Tabs, base \in BasePaths }

NextNavigation == PathForTab \/ TabFromPath \/ InferBasePathFromPathname

SpecNavigation == InitNavigation /\ [][NextNavigation]_vars

----------------------------------------------------------------------------
(* The webhook body reader of the QQ extension: readJsonBodyWithRaw of     *)
(* src/extensions/qq/src/monitor.ts. A chunk is its length; whether the    *)
(* bytes received parse as JSON is the sender's choice, except that an     *)
(* empty body never parses.                                                *)

ChunkSizes == {1, 2}

BodyLimits == 1..MaxBodyBytes

(* Buffer.concat(chunks).length *)
RECURSIVE ConcatLength(_)
ConcatLength(chunks) ==
    IF chunks = <<>> THEN 0 ELSE Head(chunks) + ConcatLength(Tail(chunks))

(* resolve(result): a promise keeps the first value it is resolved with. *)
resolve(rd, result, rawBody) ==
    [rd EXCEPT !.resolveCalls = @ + 1,
               !.result = IF @ = "<pending>" THEN result ELSE @,
               !.rawBody = IF rd.result = "<pending>" THEN rawBody ELSE @]

(* Faulty variant: done does not look at settled. *)
doneUnguarded(rd, result, rawBody) ==
    resolve([rd EXCEPT !.settled = TRUE, !.timer = FALSE], result, rawBody)

(* const done = (result) => { if (settled) return; settled = true;         *)
(*                            clearTimeout(timeoutId); resolve(result); }  *)
done(rd, result, rawBody) ==
    IF rd.settled THEN rd
    ELSE resolve([rd EXCEPT !.settled = TRUE, !.timer = FALSE], result, rawBody)

(* The call: the closure is created, the timer armed, the listeners set. *)
ReadJsonBodyWithRaw ==
    /\ reader.pc = "idle"
    /\ \E maxBytes \in BodyLimits :
          reader' = [NoReader EXCEPT !.pc = "reading", !.maxBytes = maxBytes, !.timer = TRUE]
    /\ UNCHANGED <<clients, now, trustedProxies, limiter, opts, liveAuth, req, nav>>

(* setTimeout(() => { done(REQUEST_BODY_TIMEOUT); req.destroy(); }, timeoutMs) *)
OnTimeout ==
    /\ reader.pc = "reading" /\ reader.timer
    /\ reader' = [done([reader EXCEPT !.timer = FALSE], "REQUEST_BODY_TIMEOUT", 0)
                     EXCEPT !.destroyed = TRUE, !.lastEvent = "timeout"]
    /\ UNCHANGED <<clients, now, trustedProxies, limiter, opts, liveAuth, req, nav>>

(* req.on("data", ...): a chunk already on its way is still delivered      *)
(* after the request was destroyed.                                        *)
OnData ==
    /\ reader.pc = "reading" /\ ~reader.ended
    /\ reader.delivered < MaxChunks
    /\ \E chunk \in ChunkSizes :
        LET counted == [reader EXCEPT !.totalBytes = @ + chunk, !.delivered = @ + 1,
                                      !.lastEvent = "data"]
        IN  reader' = IF counted.totalBytes > counted.maxBytes
                      THEN [done(counted, "PAYLOAD_TOO_LARGE", 0) EXCEPT !.destroyed = TRUE]
                      ELSE [counted EXCEPT !.chunks = Append(@, chunk)]
    /\ UNCHANGED <<clients, now, trustedProxies, limiter, opts, liveAuth, req, nav>>

(* req.on("end", ...): JSON.parse of the bytes kept, or the catch. *)
OnEnd ==
    /\ reader.pc = "reading" /\ ~reader.ended
    /\ \E parses \in BOOLEAN :
        LET rawBody == ConcatLength(reader.chunks)
            seen == [reader EXCEPT !.ended = TRUE,
                        !.lastEvent = IF parses /\ rawBody > 0 THEN "end" ELSE "end_unparseable"]
        IN  reader' = IF parses /\ rawBody > 0
                      THEN done(seen, "ok", rawBody)
                      ELSE done(seen, "BAD_REQUEST", 0)
    /\ UNCHANGED <<clients, now, trustedProxies, limiter, opts, liveAuth, req, nav>>

(* req.on("error", ...) *)
OnError ==
    /\ reader.pc = "reading" /\ ~reader.errored
    /\ reader' = done([reader EXCEPT !.errored = TRUE, !.lastEvent = "error"],
                      "BAD_REQUEST", 0)
    /\ UNCHANGED <<clients, now, trustedProxies, limiter, opts, liveAuth, req, nav>>

NextReader == ReadJsonBodyWithRaw \/ OnTimeout \/ OnData \/ OnEnd \/ OnError

SpecReader == InitWith({BareOptions}) /\ [][NextReader]_vars

(* A timer that was armed and not cleared fires. *)
SpecReaderFair == SpecReader /\ WF_vars(OnTimeout)

----------------------------------------------------------------------------
(* Properties *)

(* The step runs the Capability Registry's check for request r. *)
CapabilityCheckBy(r) ==
    "capability" \in req'[r].calls /\ "capability" \notin req[r].calls

(* The step calls the gateway credential check for request r. *)
GatewayCheckBy(r) ==
    "authorizeGatewayConnect" \in req'[r].calls
        /\ "authorizeGatewayConnect" \notin req[r].calls

(* Session c is a node session holding token T, with t strictly before its *)
(* stored expiry.                                                          *)
HoldsLive(c, T, t) ==
    isNodeWsClient(c) /\ c.canvasCapability = T /\ t < c.canvasCapabilityExpiresAtMs

AcceptingHandlers == {"canvasHost.handleUpgrade", "wss.handleUpgrade"}

Handlers(rec) == {rec.invoked[k] : k \in 1..Len(rec.invoked)}

(* C1: a request whose URL the scoping normalizer flags as malformed is     *)
(* over at once and nothing but the normalizer ran for it: no handler of    *)
(* the chain and no accepting handler was invoked; on the HTTP path the     *)
(* response was ended once with 401 Unauthorized, on the upgrade path the   *)
(* one write is the 401 and the socket is destroyed. Whenever the           *)
(* normalizer ran on a malformed URL the request carries the flag: it is    *)
(* never routed as unscoped.                                                *)
C1_MalformedDeniedOnBothPaths ==
    \A r \in Slots :
        LET rec == req[r]
        IN  /\ ("normalizeCanvasScopedUrl" \in rec.calls
                    /\ normalizeCanvasScopedUrl(rec.url).malformedScopedPath)
                  => rec.malformedScopedPath
            /\ normalizeCanvasScopedUrl(rec.url).malformedScopedPath
                  => rec.invoked = <<>>
            /\ rec.malformedScopedPath =>
                  /\ rec.pc = "done"
                  /\ rec.invoked = <<>>
                  /\ rec.calls = {"normalizeCanvasScopedUrl"}
                  /\ rec.kind = "http" =>
                        /\ rec.res.statusCode = 401
                        /\ rec.res.ended = 1
                        /\ rec.res.body = "Unauthorized"
                  /\ rec.kind = "upgrade" =>
                        /\ rec.socket.writes = <<401>>
                        /\ rec.socket.destroyed

C1_Witness ==
    \E r \in Slots :
        /\ req[r].kind = "http"
        /\ req[r].url = CANVAS_CAPABILITY_PATH_PREFIX \o <<"%E0%A4%A">> \o CANVAS_HOST_PATH
        /\ req[r].malformedScopedPath
        /\ req[r].res.statusCode = 401
        /\ req[r].invoked = <<>>

(* C2: when a capability check runs for a presented token that no node      *)
(* session of the live set holds (the session that held it has been         *)
(* removed, before the request arrived or while its authorization was       *)
(* suspended in the bearer-credential check), the request is denied, with   *)
(* the 401 failure, whatever the clock says, and no session is changed.     *)
C2_DeniedAfterDisconnect ==
    [][\A r \in Slots :
          (/\ CapabilityCheckBy(r)
           /\ \A i \in 1..Len(clients) :
                 ~(isNodeWsClient(clients[i])
                      /\ clients[i].canvasCapability = req'[r].capability))
          => /\ ~req'[r].verdict.ok
             /\ req'[r].pc = "done"
             /\ Handlers(req'[r]) \cap
                   ({"handleA2uiHttpRequest", "canvasHost.handleHttpRequest"}
                        \cup AcceptingHandlers) = {}
             /\ req'[r].kind = "http" => req'[r].res.statusCode = 401
             /\ req'[r].kind = "upgrade" =>
                   req'[r].socket.writes = <<401>> /\ req'[r].socket.destroyed
             /\ clients' = clients]_vars

(* The session that held the token left while the request was suspended in *)
(* the bearer-credential check, its stored expiry still ahead.             *)
C2_Witness ==
    \E r \in Slots :
        /\ req[r].pc = "done"
        /\ "capability" \in req[r].calls
        /\ "authorizeGatewayConnect" \in req[r].calls
        /\ req[r].revoked > now
        /\ ~req[r].verdict.ok
        /\ clients = <<>>

(* C3: a capability check presenting token T at time now succeeds exactly   *)
(* when some connected node session holds T with now strictly before its    *)
(* stored expiry; a success sets one such session's expiry to now + TTL and *)
(* changes nothing else, a failure changes nothing. With the grant at 0     *)
(* (expiry 5000): at 4000 the check succeeds and the expiry becomes 9000;   *)
(* at 5000 (exactly the expiry) and at 6001 it fails.                       *)
C3_SlidingExpiration ==
    [][\A r \in Slots :
          CapabilityCheckBy(r) =>
            LET T == req'[r].capability
                live == {i \in 1..Len(clients) : HoldsLive(clients[i], T, now)}
                holders == {i \in 1..Len(clients) :
                               isNodeWsClient(clients[i])
                                   /\ clients[i].canvasCapability = T}
            IN  /\ req'[r].verdict.ok <=> live # {}
                /\ live # {} =>
                      \E i \in live :
                          clients' = [clients EXCEPT ![i].canvasCapabilityExpiresAtMs =
                                                         now + CANVAS_CAPABILITY_TTL_MS]
                /\ live = {} => clients' = clients
                /\ (/\ now = 4000
                    /\ holders # {}
                    /\ \A i \in holders : clients[i].canvasCapabilityExpiresAtMs = 5000)
                      => /\ req'[r].verdict.ok
                         /\ \E i \in holders : clients'[i].canvasCapabilityExpiresAtMs = 9000
                /\ (/\ now \in {5000, 6001}
                    /\ \A i \in holders : clients[i].canvasCapabilityExpiresAtMs = 5000)
                      => ~req'[r].verdict.ok]_vars

C3_Witness ==
    /\ now = 4000
    /\ \E r \in Slots, i \in 1..Len(clients) :
          /\ req[r].verdict.ok
          /\ "capability" \in req[r].calls
          /\ clients[i].canvasCapability = req[r].capability
          /\ clients[i].canvasCapabilityExpiresAtMs = 9000

(* The limiter blocks the caller: 3 failures recorded in a window that has *)
(* not elapsed.                                                            *)
BlockedNow(caller) ==
    limiter[caller].failures >= 3 /\ now < limiter[caller].windowEnd

(* secs is ms rounded up to whole seconds. *)
RoundedUp(secs, ms) == secs * 1000 >= ms /\ (secs - 1) * 1000 < ms

(* The request was answered 429 with a Retry-After header (rec.gw being    *)
(* the rate-limited verdict of its bearer-credential attempt).             *)
Answered429(rec) ==
    /\ rec.pc = "done"
    /\ rec.gw.retryAfterMs > 0
    /\ rec.kind = "http" =>
          /\ rec.res.statusCode = 429
          /\ rec.res.ended = 1
          /\ RoundedUp(rec.res.retryAfter, rec.gw.retryAfterMs)
    /\ rec.kind = "upgrade" =>
          /\ rec.socket.writes = <<429>>
          /\ RoundedUp(rec.socket.retryAfter, rec.gw.retryAfterMs)
          /\ rec.socket.destroyed

(* C4 as stated: every finished request whose bearer-credential attempt    *)
(* met the blocking limiter was answered 429 with a Retry-After header,    *)
(* and a correct credential is never turned down for another reason.       *)
C4_Stated_BlockedAttemptAnswered429 ==
    \A r \in Slots :
        LET rec == req[r]
        IN  /\ (rec.pc = "done" /\ rec.gw.rateLimited) => Answered429(rec)
            /\ (rec.bearer = resolvedAuth.token /\ rec.gw # NoVerdict)
                  => rec.gw.ok \/ rec.gw.rateLimited

(* C4, amended: a bearer-credential attempt made while the limiter blocks  *)
(* the caller (3 failures in the window) gets the rate-limited verdict     *)
(* whatever the credential, and records nothing; on a channel route the    *)
(* request is answered 429 with Retry-After at once; on a canvas path or   *)
(* the canvas upgrade it is answered 429 with Retry-After unless the       *)
(* request also presents a capability token that a connected node session  *)
(* holds unexpired, and then it is authorized by that token. An attempt    *)
(* made when the limiter does not block (the window has elapsed) with the  *)
(* correct credential is authorized and the request goes on.               *)
C4_RateLimitPrecedence ==
    /\ [][\A r \in Slots :
             GatewayCheckBy(r) =>
               LET caller == req[r].origin
                   channel == req[r].pc = "plugin_auth"
               IN  /\ BlockedNow(caller) =>
                         /\ req'[r].gw.rateLimited
                         /\ req'[r].gw.retryAfterMs = limiter[caller].windowEnd - now
                         /\ limiter' = limiter
                         /\ channel =>
                               /\ Answered429(req'[r])
                               /\ "handlePluginRequest" \notin Handlers(req'[r])
                   /\ (~BlockedNow(caller) /\ req[r].bearer = resolvedAuth.token) =>
                         /\ req'[r].gw.ok
                         /\ limiter' = limiter
                         /\ channel => req'[r].pc = "plugin"]_vars
    /\ [][\A r \in Slots :
             (req[r].pc = "canvas_resume" /\ req'[r].pc # "canvas_resume") =>
               LET accepted == /\ req[r].capability # ""
                               /\ \E i \in 1..Len(clients) :
                                     HoldsLive(clients[i], req[r].capability, now)
               IN  /\ (req[r].gw.rateLimited /\ ~accepted) => Answered429(req'[r])
                   /\ (req[r].gw.rateLimited /\ accepted) =>
                         /\ req'[r].verdict.ok
                         /\ "capability" \in req'[r].calls
                   /\ req[r].gw.ok =>
                         /\ req'[r].verdict.ok
                         /\ clients' = clients
                         /\ req'[r].kind = "http" => req'[r].pc = "a2ui"
                         /\ req'[r].kind = "upgrade" =>
                               Handlers(req'[r]) \cap AcceptingHandlers # {}]_vars

(* The fourth attempt, with the correct credential, answered 429. *)
C4_Witness ==
    \E r \in Slots :
        /\ req[r].bearer = resolvedAuth.token
        /\ req[r].gw.rateLimited
        /\ req[r].kind = "http"
        /\ isCanvasPath(req[r].url)
        /\ req[r].res.statusCode = 429
        /\ req[r].res.retryAfter > 0
        /\ limiter[req[r].origin].failures = 3

(* The Auth Resolver or the channel-route check turned the request down. *)
Denied(v) == v.reason \in {"unauthorized", "rate_limited"}

(* The handlers of the chain from the canvas host on. *)
CanvasAndLaterHandlers ==
    {"handleA2uiHttpRequest", "canvasHost.handleHttpRequest",
     "handleControlUiAvatarRequest", "handleControlUiHttpRequest"}

(* C5: with a canvas host configured, an HTTP request whose (rewritten)     *)
(* path is a canvas path reaches handleA2uiHttpRequest,                     *)
(* canvasHost.handleHttpRequest or a later handler only after                *)
(* authorizeCanvasRequest ran and returned authorized; a request it denied  *)
(* is over, answered once with 429 when the verdict is rate-limited and 401 *)
(* otherwise, and none of those handlers was invoked.                       *)
C5_CanvasGatingHttp ==
    \A r \in Slots :
        LET rec == req[r]
        IN  (opts.canvasHost /\ rec.kind = "http" /\ isCanvasPath(rec.url)) =>
              /\ (\/ Handlers(rec) \cap CanvasAndLaterHandlers # {}
                  \/ rec.pc \in {"a2ui", "canvas_host", "control_ui"})
                    => /\ "authorizeCanvasRequest" \in rec.calls
                       /\ rec.verdict.ok
              /\ ("authorizeCanvasRequest" \in rec.calls /\ Denied(rec.verdict)) =>
                    /\ rec.pc = "done"
                    /\ rec.res.statusCode = IF rec.verdict.rateLimited THEN 429 ELSE 401
                    /\ rec.res.ended = 1
                    /\ Handlers(rec) \cap CanvasAndLaterHandlers = {}

C5_Witness ==
    \E r \in Slots :
        /\ opts.canvasHost /\ req[r].kind = "http" /\ isCanvasPath(req[r].url)
        /\ req[r].verdict.rateLimited
        /\ req[r].res.statusCode = 429
        /\ "handleOpenAiHttpRequest" \in Handlers(req[r])
        /\ "handleA2uiHttpRequest" \notin Handlers(req[r])

(* C6: for an HTTP request whose path starts with /api/channels/ the plugin *)
(* handler is reached only after authorizeGatewayConnect was called and     *)
(* authorized; when it denied, the request is over, answered once with 429  *)
(* (rate-limited) or 401, and neither the plugin handler nor any later one  *)
(* ran. A request outside that prefix reaches the plugin handler with no    *)
(* gateway check made.                                                      *)
C6_ChannelRouteReauthorization ==
    \A r \in Slots :
        LET rec == req[r]
        IN  rec.kind = "http" =>
              /\ isChannelPath(rec.url) =>
                    /\ (rec.pc = "plugin" \/ "handlePluginRequest" \in Handlers(rec))
                          => /\ "authorizeGatewayConnect" \in rec.calls
                             /\ rec.gw.ok
                    /\ Denied(rec.gw) =>
                          /\ rec.pc = "done"
                          /\ rec.res.statusCode = IF rec.gw.rateLimited THEN 429 ELSE 401
                          /\ rec.res.ended = 1
                          /\ Handlers(rec) \subseteq
                                {"handleHooksRequest", "handleToolsInvokeHttpRequest",
                                 "handleSlackHttpRequest"}
              /\ (~isChannelPath(rec.url) /\ rec.pc = "plugin") =>
                    /\ "authorizeGatewayConnect" \notin rec.calls
                    /\ rec.gw = NoVerdict
              /\ (~isChannelPath(rec.url) /\ ~isCanvasPath(rec.url)) =>
                    "authorizeGatewayConnect" \notin rec.calls

C6_Witness ==
    \E r \in Slots :
        /\ req[r].kind = "http" /\ isChannelPath(req[r].url)
        /\ req[r].gw.ok
        /\ "handlePluginRequest" \in Handlers(req[r])

(* C7 as stated: every upgrade whose normalized path is the canvas          *)
(* WebSocket endpoint was handed to an accepting handler only after the     *)
(* Auth Resolver ran and authorized; an upgrade to another path never met   *)
(* the Auth Resolver and was passed on.                                     *)
C7_Stated_UpgradeGateScope ==
    \A r \in Slots :
        LET rec == req[r]
        IN  (rec.kind = "upgrade" /\ ~rec.malformedScopedPath) =>
              /\ (rec.url = CANVAS_WS_PATH /\ Handlers(rec) \cap AcceptingHandlers # {})
                    => /\ "authorizeCanvasRequest" \in rec.calls
                       /\ rec.verdict.ok
              /\ rec.url # CANVAS_WS_PATH =>
                    /\ "authorizeCanvasRequest" \notin rec.calls
                    /\ rec.pc = "done" => Handlers(rec) \cap AcceptingHandlers # {}

(* C7, amended: when a canvas host is configured, an upgrade whose          *)
(* normalized path is the canvas WebSocket endpoint is handed to an         *)
(* accepting handler only after the Auth Resolver ran and authorized; an    *)
(* upgrade to any other path, and every upgrade when no canvas host is      *)
(* configured, never meets the Auth Resolver and is passed on.              *)
C7_UpgradeGateScope ==
    \A r \in Slots :
        LET rec == req[r]
            gated == opts.canvasHost /\ rec.url = CANVAS_WS_PATH
        IN  (rec.kind = "upgrade" /\ ~rec.malformedScopedPath) =>
              /\ (gated /\ Handlers(rec) \cap AcceptingHandlers # {})
                    => /\ "authorizeCanvasRequest" \in rec.calls
                       /\ rec.verdict.ok
              /\ ~gated =>
                    /\ "authorizeCanvasRequest" \notin rec.calls
                    /\ rec.verdict = NoVerdict
                    /\ rec.pc = "done" => Handlers(rec) \cap AcceptingHandlers # {}
              /\ (~opts.canvasHost /\ rec.pc = "done") =>
                    rec.invoked = <<"wss.handleUpgrade">>

C7_Witness ==
    \E r \in Slots :
        /\ opts.canvasHost
        /\ req[r].kind = "upgrade" /\ req[r].url = CANVAS_WS_PATH
        /\ req[r].capability = "T1"
        /\ "capability" \in req[r].calls
        /\ req[r].verdict.ok
        /\ req[r].invoked = <<"canvasHost.handleUpgrade", "wss.handleUpgrade">>

(* C8: an upgrade the gate denied (malformed scoped path, or the Auth       *)
(* Resolver's denial) is over with exactly one response written to the      *)
(* socket, 429 (with Retry-After, the delay rounded up to seconds) when the *)
(* verdict is rate-limited and 401 otherwise, the socket destroyed after    *)
(* the write, and no accepting handler invoked; nothing is ever written to  *)
(* the socket of an upgrade that was not denied.                            *)
C8_UpgradeDenial ==
    \A r \in Slots :
        LET rec == req[r]
            denied == rec.malformedScopedPath \/ Denied(rec.verdict)
        IN  rec.kind = "upgrade" =>
              /\ denied =>
                    /\ rec.pc = "done"
                    /\ rec.socket.writes = <<IF rec.verdict.rateLimited THEN 429 ELSE 401>>
                    /\ rec.verdict.rateLimited =>
                          RoundedUp(rec.socket.retryAfter, rec.verdict.retryAfterMs)
                    /\ rec.socket.destroyed
                    /\ rec.invoked = <<>>
              /\ ~denied => rec.socket.writes = <<>>

C8_Witness ==
    \E r \in Slots :
        /\ req[r].kind = "upgrade"
        /\ req[r].verdict.rateLimited
        /\ req[r].socket.writes = <<429>>
        /\ req[r].socket.retryAfter = 5
        /\ req[r].socket.destroyed

(* The step enters authorizeCanvasRequest for request r. *)
AuthResolverEnteredBy(r) ==
    "authorizeCanvasRequest" \in req'[r].calls
        /\ "authorizeCanvasRequest" \notin req[r].calls

(* The origin matches the local-direct rule or a trusted proxy of the      *)
(* configuration snapshot the request loaded.                              *)
TrustedOrigin(rec) == rec.origin = "loopback" \/ rec.origin \in rec.trustedProxies

(* C9: when authorizeCanvasRequest is entered for a request whose origin    *)
(* matches the local-direct/trusted-proxy rule, it returns authorized in    *)
(* that same step, whatever bearer credential or capability token the       *)
(* request carries: the gateway credential check is not called, the limiter *)
(* and every session (its expiry included) stay as they were, and the       *)
(* request goes on to the canvas handlers or the accepting handler. Such a  *)
(* request never waits in the bearer-credential check.                      *)
C9_TrustedOriginBypass ==
    /\ [][\A r \in Slots :
             (AuthResolverEnteredBy(r) /\ TrustedOrigin(req'[r])) =>
                 /\ req'[r].verdict = AuthOk
                 /\ "authorizeGatewayConnect" \notin req'[r].calls
                 /\ "capability" \notin req'[r].calls
                 /\ limiter' = limiter
                 /\ clients' = clients
                 /\ req'[r].kind = "http" => req'[r].pc = "a2ui"
                 /\ req'[r].kind = "upgrade" =>
                       Handlers(req'[r]) \cap AcceptingHandlers # {}]_vars
    /\ [](\A r \in Slots :
             ("authorizeCanvasRequest" \in req[r].calls /\ TrustedOrigin(req[r])) =>
                 /\ req[r].pc \notin {"canvas_gw", "canvas_resume"}
                 /\ req[r].gw = NoVerdict
                 /\ req[r].verdict = AuthOk)

(* A proxy the configuration trusts, a wrong bearer credential and a live  *)
(* capability token: authorized, the session's expiry still the granted.   *)
C9_Witness ==
    \E r \in Slots :
        /\ req[r].origin = "10.0.0.5"
        /\ req[r].trustedProxies = {"10.0.0.5"}
        /\ req[r].bearer = "wrong"
        /\ req[r].capability = "T1"
        /\ "authorizeCanvasRequest" \in req[r].calls
        /\ req[r].verdict = AuthOk
        /\ now = 4000
        /\ Len(clients) = 1
        /\ clients[1].canvasCapability = "T1"
        /\ clients[1].canvasCapabilityExpiresAtMs = 5000

(* The sessions of cs with their expiries left out. *)
WithoutExpiry(cs) ==
    [i \in 1..Len(cs) |-> [cs[i] EXCEPT !.canvasCapabilityExpiresAtMs = 0]]

(* C10: under every interleaving of two in-flight requests or upgrades     *)
(* with connects, disconnects and message-loop updates, a capability check *)
(* is one step: in the step that runs it no other request moves, no        *)
(* session joins, leaves or changes its token, and an expiry it writes is  *)
(* that of a session which, in the state the step starts from, is in the   *)
(* set, holds the presented token and is unexpired, and becomes now + TTL; *)
(* every other change of the session set is a step of the environment in   *)
(* which no request moves.                                                 *)
C10_AtomicRenewal ==
    [][/\ \A r \in Slots :
             CapabilityCheckBy(r) =>
                 /\ \A q \in Slots \ {r} : req'[q] = req[q]
                 /\ WithoutExpiry(clients') = WithoutExpiry(clients)
                 /\ \A i \in 1..Len(clients) :
                       clients'[i] # clients[i] =>
                           /\ HoldsLive(clients[i], req'[r].capability, now)
                           /\ clients'[i].canvasCapabilityExpiresAtMs =
                                 now + CANVAS_CAPABILITY_TTL_MS
       /\ ((\A r \in Slots : ~CapabilityCheckBy(r)) /\ clients' # clients) =>
             \A r \in Slots : [req'[r] EXCEPT !.revoked = 0] = [req[r] EXCEPT !.revoked = 0]
      ]_vars

(* One request renewed the token's session while the other, presenting the *)
(* same token, is suspended in the bearer-credential check.                *)
C10_Witness ==
    \E r \in Slots, q \in Slots, i \in 1..Len(clients) :
        /\ r # q
        /\ req[r].pc \in {"canvas_gw", "canvas_resume"}
        /\ req[r].capability = "T1"
        /\ req[q].capability = "T1"
        /\ "capability" \in req[q].calls
        /\ req[q].verdict.ok
        /\ now = 4000
        /\ clients[i].canvasCapability = "T1"
        /\ clients[i].canvasCapabilityExpiresAtMs = 9000

(* The gateway credential check was called for the request and no verdict  *)
(* came back: the check, or the limiter it consults, threw.                *)
GatewayCheckThrew(rec) ==
    "authorizeGatewayConnect" \in rec.calls /\ rec.gw = NoVerdict

(* C11: a request whose credential check (or the limiter behind it) threw  *)
(* is over and was never authorized: on the HTTP path the response is the  *)
(* one generic 500, the plugin handler was not invoked for a channel route *)
(* and no canvas or later handler for a canvas path; on the upgrade path   *)
(* nothing was written, the socket is destroyed and no accepting handler   *)
(* was invoked. No session was renewed for it.                             *)
C11_FailClosedOnLimiterFailure ==
    \A r \in Slots :
        LET rec == req[r]
        IN  GatewayCheckThrew(rec) =>
              /\ rec.pc = "done"
              /\ ~rec.verdict.ok
              /\ "capability" \notin rec.calls
              /\ rec.kind = "http" =>
                    /\ rec.res.statusCode = 500
                    /\ rec.res.body = "Internal Server Error"
                    /\ rec.res.ended = 1
                    /\ isChannelPath(rec.url) => "handlePluginRequest" \notin Handlers(rec)
                    /\ Handlers(rec) \cap CanvasAndLaterHandlers = {}
              /\ rec.kind = "upgrade" =>
                    /\ rec.socket.destroyed
                    /\ rec.socket.writes = <<>>
                    /\ rec.invoked = <<>>

(* The check threw for an upgrade to the canvas WebSocket endpoint that    *)
(* carried the correct credential and a capability token.                  *)
C11_Witness ==
    \E r \in Slots :
        /\ GatewayCheckThrew(req[r])
        /\ req[r].kind = "upgrade"
        /\ req[r].bearer = resolvedAuth.token
        /\ req[r].capability = "T1"
        /\ req[r].socket.destroyed
        /\ Len(clients) > 0

(* The live configuration's auth settings accept the credential. *)
LiveAuthAccepts(token) ==
    \/ liveAuth.mode = "none"
    \/ (token # "" /\ token = liveAuth.token)
    \/ (token # "" /\ token = liveAuth.password)

(* C12 as stated: the authorization of a request is governed by the live   *)
(* configuration as it stands for that request (it does not change while   *)
(* the request is in flight here): the gateway credential check accepts    *)
(* exactly the credentials the live auth settings accept, and an origin    *)
(* the request's snapshot of the trusted-proxy list names is authorized.   *)
C12_Stated_LiveTrustConfiguration ==
    \A r \in Slots :
        LET rec == req[r]
        IN  /\ rec.gw # NoVerdict => (rec.gw.ok <=> LiveAuthAccepts(rec.bearer))
            /\ ("authorizeCanvasRequest" \in rec.calls /\ TrustedOrigin(rec))
                  => rec.verdict = AuthOk

----------------------------------------------------------------------------
(* The Ingress Router: order, health endpoints, 404, 500, headers. *)

(* The order the router documents, after the health check. *)
ChainOrder ==
    <<"handleHooksRequest", "handleToolsInvokeHttpRequest", "handleSlackHttpRequest",
      "handlePluginRequest", "handleOpenResponsesHttpRequest", "handleOpenAiHttpRequest",
      "handleA2uiHttpRequest", "canvasHost.handleHttpRequest",
      "handleControlUiAvatarRequest", "handleControlUiHttpRequest">>

(* The handler is enabled by the options of the server. *)
EnabledHandler(h) ==
    CASE h = "handlePluginRequest" -> opts.handlePluginRequest
      [] h = "handleOpenResponsesHttpRequest" -> opts.openResponsesEnabled
      [] h = "handleOpenAiHttpRequest" -> opts.openAiChatCompletionsEnabled
      [] h \in {"handleA2uiHttpRequest", "canvasHost.handleHttpRequest"} -> opts.canvasHost
      [] h \in {"handleControlUiAvatarRequest", "handleControlUiHttpRequest"} ->
            opts.controlUiEnabled
      [] OTHER -> TRUE

EnabledChain == SelectSeq(ChainOrder, EnabledHandler)

(* The response was written by the handler that claimed the request. *)
ClaimedBy(rec, h) == rec.res.statusCode = 200 /\ rec.res.body = h

(* handleRequest got past the load of the configuration snapshot. *)
ConfigLoaded(rec) == "normalizeCanvasScopedUrl" \in rec.calls

(* A request the "request" listener dispatches: not one it leaves to the   *)
(* "upgrade" listener.                                                     *)
Dispatchable(rec) == rec.kind = "http" /\ ~rec.upgradeHdr

HealthBody == "{\"ok\":true,\"status\":\"ok\",\"service\":\"openclaw-gateway\"}"

(* C13: the handlers invoked for an HTTP request are, in order, the first   *)
(* handlers of the documented chain that the options enable: a handler is  *)
(* invoked only after every enabled handler before it was invoked (and      *)
(* declined), a disabled handler is never invoked, and a health path       *)
(* reaches none of them. Once a response is written the request is over,   *)
(* and the handler that claimed it is the last one invoked.                *)
C13_FixedDispatchOrder ==
    \A r \in Slots :
        LET rec == req[r]
        IN  rec.kind = "http" =>
              /\ Len(rec.invoked) <= Len(EnabledChain)
              /\ \A k \in 1..Len(rec.invoked) : rec.invoked[k] = EnabledChain[k]
              /\ isGatewayHealthPath(rec.url) => rec.invoked = <<>>
              /\ rec.res.ended > 0 => (rec.pc = "done" /\ rec.res.ended = 1)
              /\ \A k \in 1..Len(rec.invoked) :
                    ClaimedBy(rec, rec.invoked[k]) => k = Len(rec.invoked)

(* Without a canvas host, the static control UI handler claimed a request  *)
(* after the seven enabled handlers before it declined.                    *)
C13_Witness ==
    \E r \in Slots :
        /\ ~opts.canvasHost /\ opts.handlePluginRequest
        /\ req[r].pc = "done"
        /\ ClaimedBy(req[r], "handleControlUiHttpRequest")
        /\ Len(req[r].invoked) = 8

(* C14: a request that carries the websocket upgrade header and is         *)
(* delivered to handleRequest is over at once: the normalizer did not run, *)
(* no authorization ran, no handler was invoked (the health check          *)
(* included) and nothing was written to the response.                      *)
C14_UpgradeRequestsBypassHttp ==
    \A r \in Slots :
        LET rec == req[r]
        IN  (rec.kind = "http" /\ rec.upgradeHdr) =>
              /\ rec.pc = "done"
              /\ rec.calls = {}
              /\ rec.invoked = <<>>
              /\ rec.gw = NoVerdict /\ rec.verdict = NoVerdict
              /\ rec.res.ended = 0 /\ rec.res.statusCode = 0 /\ rec.res.body = ""

(* Such a request for a health path: it gets no health answer either. *)
C14_Witness ==
    \E r \in Slots :
        /\ req[r].kind = "http" /\ req[r].upgradeHdr
        /\ isGatewayHealthPath(req[r].url)
        /\ req[r].pc = "done"
        /\ req[r].res.ended = 0

(* C15: a GET for /healthz or /health, the configuration snapshot loaded,  *)
(* is answered once with 200 and the health payload as JSON, whoever asks  *)
(* and whatever credential is presented; no authorization ran and no       *)
(* handler was invoked.                                                    *)
C15_HealthEndpoints ==
    \A r \in Slots :
        LET rec == req[r]
        IN  (Dispatchable(rec) /\ rec.method = "GET" /\ isGatewayHealthPath(rec.url)) =>
              /\ rec.pc = "done"
              /\ rec.invoked = <<>>
              /\ rec.gw = NoVerdict /\ rec.verdict = NoVerdict
              /\ rec.calls \subseteq {"normalizeCanvasScopedUrl"}
              /\ ConfigLoaded(rec) =>
                    /\ rec.res.statusCode = 200
                    /\ rec.res.body = HealthBody
                    /\ rec.res.ended = 1

(* GET /health from a remote origin without a credential was answered. *)
C15_Witness ==
    \E r \in Slots :
        /\ Dispatchable(req[r]) /\ req[r].method = "GET"
        /\ req[r].url = <<"health">>
        /\ req[r].origin = "10.0.0.5" /\ req[r].bearer = ""
        /\ req[r].res.statusCode = 200
        /\ req[r].res.body = HealthBody

(* C16: a request for a health path with a method other than GET, the      *)
(* configuration snapshot loaded, is answered once with 405, the header    *)
(* Allow: GET and the body "Method Not Allowed"; it never falls through to *)
(* a handler or to an authorization.                                       *)
C16_HealthMethodRestriction ==
    \A r \in Slots :
        LET rec == req[r]
        IN  (Dispatchable(rec) /\ rec.method # "GET" /\ isGatewayHealthPath(rec.url)) =>
              /\ rec.pc = "done"
              /\ rec.invoked = <<>>
              /\ rec.gw = NoVerdict /\ rec.verdict = NoVerdict
              /\ ConfigLoaded(rec) =>
                    /\ rec.res.statusCode = 405
                    /\ rec.res.allow = "GET"
                    /\ rec.res.body = "Method Not Allowed"
                    /\ rec.res.ended = 1

(* POST /healthz was refused. *)
C16_Witness ==
    \E r \in Slots :
        /\ Dispatchable(req[r]) /\ req[r].method = "POST"
        /\ req[r].url = <<"healthz">>
        /\ req[r].res.statusCode = 405
        /\ req[r].res.allow = "GET"

(* The request ended by an error thrown during dispatch: by the load of    *)
(* the configuration, by the credential check, or by the handler invoked   *)
(* last (which neither claimed the request nor let it go on to the 404 or  *)
(* to a denial).                                                           *)
ConfigLoadThrew(rec) == Dispatchable(rec) /\ rec.pc = "done" /\ ~ConfigLoaded(rec)

HandlerThrew(rec) ==
    /\ Dispatchable(rec) /\ rec.pc = "done"
    /\ rec.invoked # <<>>
    /\ ~ClaimedBy(rec, rec.invoked[Len(rec.invoked)])
    /\ rec.res.statusCode # 404
    /\ ~Denied(rec.verdict)
    /\ ~GatewayCheckThrew(rec)

DispatchThrew(rec) ==
    ConfigLoadThrew(rec) \/ (rec.kind = "http" /\ GatewayCheckThrew(rec)) \/ HandlerThrew(rec)

(* C17: a dispatched request that is over, is not for a health path, was   *)
(* not denied (malformed path or authorization), was claimed by no handler *)
(* and met no error is answered once with 404 "Not Found"; and a 404 is    *)
(* written only after every enabled handler of the chain was invoked.      *)
C17_NotFoundFallback ==
    \A r \in Slots :
        LET rec == req[r]
        IN  /\ ( /\ Dispatchable(rec) /\ rec.pc = "done"
                 /\ ConfigLoaded(rec)
                 /\ ~isGatewayHealthPath(rec.url)
                 /\ ~rec.malformedScopedPath
                 /\ ~Denied(rec.verdict)
                 /\ ~GatewayCheckThrew(rec)
                 /\ rec.res.statusCode # 500
                 /\ \A h \in Handlers(rec) : ~ClaimedBy(rec, h) )
               => /\ rec.res.statusCode = 404
                  /\ rec.res.body = "Not Found"
                  /\ rec.res.ended = 1
                  /\ rec.invoked = EnabledChain
            /\ (rec.kind = "http" /\ rec.res.statusCode = 404)
               => /\ rec.invoked = EnabledChain
                  /\ rec.pc = "done"
                  /\ ~rec.upgradeHdr /\ ~isGatewayHealthPath(rec.url)

(* With every handler enabled, all ten declined an authorized request for  *)
(* a canvas path.                                                          *)
C17_Witness ==
    \E r \in Slots :
        /\ req[r].res.statusCode = 404
        /\ req[r].res.body = "Not Found"
        /\ Len(req[r].invoked) = 10
        /\ isCanvasPath(req[r].url)
        /\ req[r].verdict.ok

C19_SecurityHeaders ==
    \A r \in Slots :
        LET rec == req[r]
        IN  (rec.kind = "http" /\ ( \/ rec.calls # {} \/ rec.invoked # <<>>
                                    \/ rec.res.ended > 0 \/ rec.pc = "done" ))
              => rec.res.securityHeaders

(* A malformed scoped path was refused with 401, headers set. *)
C19_Witness ==
    \E r \in Slots :
        /\ req[r].kind = "http"
        /\ req[r].malformedScopedPath
        /\ req[r].res.statusCode = 401
        /\ req[r].res.ended = 1
        /\ req[r].res.securityHeaders

(* C20 as stated: for every tab and every base path, the link built for   *)
(* the tab under the base path reads back as that tab, and the base path   *)
(* inferred from the link is the normalized base path.                     *)
C20_Stated_ControlUiPathRoundTrip ==
    nav.pc = "resolved" =>
        /\ nav.tabFromPath = nav.tab
        /\ nav.inferredBasePath = normalizeBasePath(nav.basePath)

----------------------------------------------------------------------------
(* The Auth Resolver's fallback, the Capability Registry's frame, the      *)
(* limiter's coverage, the responders.                                     *)

(* The step in which authorizeCanvasRequest returns its verdict for r. *)
ResolverReturnedBy(r) ==
    /\ req[r].verdict = NoVerdict
    /\ req'[r].verdict # NoVerdict
    /\ "authorizeCanvasRequest" \in req'[r].calls

(* C21: when authorizeCanvasRequest returns for a request from an          *)
(* untrusted origin whose bearer-credential check did not authorize it     *)
(* (denied as unauthorized, denied as rate-limited, or not made for want   *)
(* of a credential): if the request carries a capability token that a      *)
(* connected node session holds unexpired, the verdict is authorized;      *)
(* otherwise the verdict is the bearer check's denial when there is one    *)
(* and the bare unauthorized verdict when there is none.                   *)
C21_CapabilityFallback ==
    [][\A r \in Slots :
          LET rec == req'[r]
              valid == /\ rec.capability # ""
                       /\ \E i \in 1..Len(clients) :
                             HoldsLive(clients[i], rec.capability, now)
          IN  (/\ ResolverReturnedBy(r)
               /\ ~TrustedOrigin(rec)
               /\ ~rec.malformedScopedPath
               /\ ~rec.gw.ok)
              => /\ valid => rec.verdict = AuthOk
                 /\ ~valid => rec.verdict = IF rec.gw # NoVerdict THEN rec.gw
                                            ELSE AuthUnauthorized
                 /\ (~valid /\ rec.gw.rateLimited) => rec.verdict.rateLimited]_vars

(* A rate-limited caller's upgrade was authorized by its capability token. *)
C21_Witness ==
    \E r \in Slots :
        /\ req[r].kind = "upgrade"
        /\ req[r].gw.rateLimited
        /\ "capability" \in req[r].calls
        /\ req[r].verdict = AuthOk
        /\ Handlers(req[r]) \cap AcceptingHandlers # {}

(* C22: a capability check never moves a session's expiry to an earlier   *)
(* time: in the step that runs it every session is still there with an     *)
(* expiry at least what it was, and the expiry of a session it renewed is   *)
(* later than the time of the check.                                       *)
C22_ExpiryOnlyExtended ==
    [][\A r \in Slots :
          CapabilityCheckBy(r) =>
              /\ Len(clients') = Len(clients)
              /\ \A i \in 1..Len(clients) :
                    /\ clients'[i].canvasCapabilityExpiresAtMs
                          >= clients[i].canvasCapabilityExpiresAtMs
                    /\ clients'[i] # clients[i] =>
                          clients'[i].canvasCapabilityExpiresAtMs > now]_vars

(* A token granted at 4000 (expiry 9000) was matched at 6001: the expiry   *)
(* is 11001.                                                               *)
C22_Witness ==
    /\ now = 6001
    /\ \E r \in Slots, i \in 1..Len(clients) :
          /\ req[r].verdict.ok
          /\ "capability" \in req[r].calls
          /\ clients[i].canvasCapability = req[r].capability
          /\ clients[i].canvasCapabilityExpiresAtMs = 11001

(* A node-class peer: role "node", or the client mode node. *)
NodeClassPeer(c) == c.role = "node" \/ c.mode = "node"

(* C23: a capability check succeeds only when a node-class session holds   *)
(* the presented token unexpired, and it never changes a session that is   *)
(* not node-class, whatever token and expiry that session holds.           *)
C23_OnlyNodeSessionsGrant ==
    [][\A r \in Slots :
          CapabilityCheckBy(r) =>
              /\ req'[r].verdict.ok =>
                    \E i \in 1..Len(clients) :
                        /\ NodeClassPeer(clients[i])
                        /\ clients[i].canvasCapability = req'[r].capability
                        /\ now < clients[i].canvasCapabilityExpiresAtMs
              /\ \A i \in 1..Len(clients) :
                    ~NodeClassPeer(clients[i]) =>
                        (i <= Len(clients') /\ clients'[i] = clients[i])]_vars

(* The presented token is held, unexpired, by a webchat session only: the  *)
(* request was denied and the session's expiry is the granted one.         *)
C23_Witness ==
    \E r \in Slots :
        /\ req[r].pc = "done"
        /\ "capability" \in req[r].calls
        /\ ~req[r].verdict.ok
        /\ now = 4000
        /\ Len(clients) = 1
        /\ clients[1].mode = "webchat" /\ clients[1].role = "operator"
        /\ clients[1].canvasCapability = req[r].capability
        /\ clients[1].canvasCapabilityExpiresAtMs = 5000

(* C24 as stated: every request or upgrade that the Auth Resolver or the   *)
(* channel-route check denied went through the gateway credential check,   *)
(* the one that consults the limiter and records the failure.              *)
C24_Stated_DeniedAttemptsReachLimiter ==
    \A r \in Slots :
        Denied(req[r].verdict) => "authorizeGatewayConnect" \in req[r].calls

Responder(rec) ==
    CASE rec.res.statusCode = 404 -> "not_found"
      [] rec.res.statusCode = 500 -> "catch"
      [] rec.res.statusCode = 405 -> "health"
      [] rec.res.statusCode \in {401, 429} -> "auth_failure"
      [] rec.res.statusCode = 200 /\ rec.res.body = HealthBody -> "health"
      [] rec.res.statusCode = 200 -> rec.res.body
      [] OTHER -> "none"

C27_SingleAcceptingHandler ==
    \A r \in Slots :
        LET rec == req[r]
            acc == rec.socket.accepted
        IN  rec.kind = "upgrade" =>
              /\ Cardinality(acc) <= 1
              /\ acc \subseteq Handlers(rec)
              /\ Handlers(rec) \subseteq AcceptingHandlers
              /\ (opts.canvasHost /\ rec.invoked # <<>>) =>
                    rec.invoked[1] = "canvasHost.handleUpgrade"
              /\ "wss.handleUpgrade" \in Handlers(rec) =>
                    /\ "canvasHost.handleUpgrade" \notin acc
                    /\ opts.canvasHost => rec.invoked =
                            <<"canvasHost.handleUpgrade", "wss.handleUpgrade">>
                    /\ ~opts.canvasHost => rec.invoked = <<"wss.handleUpgrade">>
              /\ (rec.pc = "done" /\ ~rec.socket.destroyed) => Cardinality(acc) = 1
              /\ (rec.malformedScopedPath \/ Denied(rec.verdict)) => acc = {}

(* The canvas host took an authorized upgrade; the WebSocket server was    *)
(* not called.                                                             *)
C27_Witness ==
    \E r \in Slots :
        /\ req[r].kind = "upgrade" /\ req[r].pc = "done"
        /\ req[r].url = CANVAS_WS_PATH
        /\ req[r].verdict.ok
        /\ req[r].socket.accepted = {"canvasHost.handleUpgrade"}
        /\ req[r].invoked = <<"canvasHost.handleUpgrade">>

(* The session holds no capability: its token or its expiry is absent. *)
HoldsNothing(c) == c.canvasCapability = "" \/ c.canvasCapabilityExpiresAtMs = 0

FirstLiveHolder(cs, T, t) ==
    LET live == {i \in 1..Len(cs) : HoldsLive(cs[i], T, t)}
    IN  IF live = {} THEN 0 ELSE CHOOSE i \in live : \A j \in live : i <= j

(* C29: a capability check changes nothing but the expiry of the one       *)
(* session it matched: the session set keeps its members, their order,     *)
(* roles, modes and tokens; a check that fails leaves every expiry as it   *)
(* was; a check that succeeds renews the first matching session only, and  *)
(* every other session, one holding the same token included, is unchanged. *)
(* The limiter and the configuration are not touched either.               *)
C29_CapabilityCheckFrame ==
    [][\A r \in Slots :
          CapabilityCheckBy(r) =>
              LET first == FirstLiveHolder(clients, req'[r].capability, now)
              IN  /\ Len(clients') = Len(clients)
                  /\ \A i \in 1..Len(clients) :
                        /\ clients'[i].role = clients[i].role
                        /\ clients'[i].mode = clients[i].mode
                        /\ clients'[i].canvasCapability = clients[i].canvasCapability
                        /\ i # first => clients'[i] = clients[i]
                  /\ ~req'[r].verdict.ok => clients' = clients
                  /\ req'[r].verdict.ok =>
                        /\ first # 0
                        /\ clients'[first].canvasCapabilityExpiresAtMs
                              = now + CANVAS_CAPABILITY_TTL_MS
                  /\ limiter' = limiter /\ trustedProxies' = trustedProxies
                  /\ now' = now]_vars

(* Two node sessions hold the presented token; the check at 4000 renewed   *)
(* the first and left the second at its granted expiry.                    *)
C29_Witness ==
    \E r \in Slots :
        /\ "capability" \in req[r].calls
        /\ req[r].verdict.ok
        /\ now = 4000
        /\ Len(clients) = 2
        /\ isNodeWsClient(clients[1]) /\ isNodeWsClient(clients[2])
        /\ clients[1].canvasCapability = req[r].capability
        /\ clients[2].canvasCapability = req[r].capability
        /\ clients[1].canvasCapabilityExpiresAtMs = 9000
        /\ clients[2].canvasCapabilityExpiresAtMs = 5000

(* C30: readJsonBodyWithRaw settles exactly once. The promise is resolved  *)
(* at most once; it is settled exactly when it has a result, and then the  *)
(* timer is cleared; once settled, no later data, end, error or timeout    *)
(* changes the result or the raw body. The event that settles it decides:  *)
(* a chunk that takes the byte count over maxBytes gives PAYLOAD_TOO_LARGE *)
(* (and a chunk within the limit settles nothing), the timeout gives       *)
(* REQUEST_BODY_TIMEOUT, a stream error or an end whose bytes do not parse *)
(* gives BAD_REQUEST, an end whose bytes parse gives ok with all the bytes *)
(* received. An ok result never carries more than maxBytes bytes. A call   *)
(* that was made settles: at the latest when its timer fires.              *)
C30_ReaderSettlesOnce ==
    /\ (reader.pc = "reading") ~> reader.settled
    /\ [](/\ reader.resolveCalls <= 1
          /\ reader.settled <=> reader.result # "<pending>"
          /\ reader.settled <=> reader.resolveCalls = 1
          /\ reader.settled => ~reader.timer
          /\ reader.result = "ok" =>
                /\ reader.rawBody <= reader.maxBytes
                /\ reader.rawBody > 0)
    /\ [][reader.settled =>
             /\ reader'.settled
             /\ reader'.result = reader.result
             /\ reader'.rawBody = reader.rawBody
             /\ reader'.resolveCalls = reader.resolveCalls]_vars
    /\ [][(reader.pc = "reading" /\ ~reader.settled) =>
             CASE reader'.lastEvent = "timeout" ->
                     reader'.result = "REQUEST_BODY_TIMEOUT"
               [] reader'.lastEvent = "error" -> reader'.result = "BAD_REQUEST"
               [] reader'.lastEvent = "end_unparseable" -> reader'.result = "BAD_REQUEST"
               [] reader'.lastEvent = "end" ->
                     /\ reader'.result = "ok"
                     /\ reader'.rawBody = reader.totalBytes
               [] reader'.lastEvent = "data" ->
                     IF reader'.totalBytes > reader.maxBytes
                     THEN reader'.result = "PAYLOAD_TOO_LARGE"
                     ELSE ~reader'.settled /\ reader'.chunks # reader.chunks
               [] OTHER -> FALSE]_vars

(* The body was read whole (at the limit of 3 bytes, in two chunks) and    *)
(* the promise resolved ok; an error event came afterwards and changed     *)
(* nothing.                                                                *)
C30_Witness ==
    /\ reader.result = "ok"
    /\ reader.maxBytes = 3
    /\ reader.rawBody = 3
    /\ Len(reader.chunks) = 2
    /\ reader.lastEvent = "error"
    /\ reader.resolveCalls = 1

====
